---- MODULE Spec2Model ----
(***************************************************************************)
(* Model of the personal-ai-assistant agent runtime.                       *)
(*                                                                         *)
(*   Part 1  SupervisorAgent (src/src/agent/supervisor.py): one turn of    *)
(*           handle() is a sequence of steps between its await points,     *)
(*           together with the tool registry's execute / execute_safe.     *)
(*   Part 2  TaskManager (src/src/task/manager.py): the in-memory task     *)
(*           dict and the JSON-lines file it rewrites.                     *)
(*                                                                         *)
(* User inputs are sequences of tokens.  The Chinese keywords of the       *)
(* source are written in pinyin (shi, queren, shanchu, ...); a keyword     *)
(* "occurs in" an input when it is one of its tokens.                      *)
(***************************************************************************)
EXTENDS Integers, Sequences, FiniteSets, TLC

VARIABLES
    \* ---- SupervisorAgent ----
    fast_path,        \* self.fast_path is configured (constructor argument)
    pending,          \* self._pending_confirmation
    pendingAge,       \* history: handle() entries the slot has lived through
    pc,               \* where the current turn stands
    user_input,       \* argument of the running handle()
    mode,             \* result of _analyze_intent
    planKind,         \* which planner runs: "single" | "multi" | "none"
    attempt,          \* loop variable of _plan_*_with_retry
    plan,             \* context.plan.steps
    current_step,     \* context.plan.current_step
    step_count,       \* local step_count of _execute_multi_step
    streamFrom,       \* caller of _generate_chat_response_stream
    calls,            \* history: tools.execute calls of this turn
    out,              \* history: items yielded in this turn
    entryPending,     \* history: the slot when handle() was entered
    reply,            \* history: last argument of continue_with_input
    \* ---- TaskManager ----
    tasks,            \* self.tasks (insertion-ordered dict)
    file,             \* lines of storage_path
    now,              \* datetime.now(), in abstract ticks
    \* ---- _save_tasks step by step ----
    saving,           \* the storage file is open for writing
    savePos,          \* tasks written since it was opened
    prefixes,         \* history: file contents after each completed mutation
    crashed,          \* the process died
    \* ---- MemorySystem ----
    using_fallback,   \* self._using_fallback
    fallback_client,  \* self._fallback_client is not None
    primaryDb,        \* entries in the long-term store (long_term.db)
    fallbackDir,      \* entries in <data_dir>/fallback
    memLast,          \* history: the last store / recall and what it touched
    \* ---- WorkingMemory ----
    slots,            \* self.slots (insertion-ordered dict)
    messages,         \* self.messages
    summary,          \* self._summary: number of summaries merged (0, 1, 2 = more)
    sysAdded,         \* history: system messages added since the last clear
    identitySet,      \* history: content last set for the identity slot
    wmLast,           \* history: the last slot operation
    \* ---- ToolRegistry ----
    regLast,          \* history: the last call and what came out of it
    \* ---- one run of Tool.execute_safe ----
    esPc,             \* "idle" | "running" | "returned"
    esCall,           \* the tool and the arguments of the call
    esClock,          \* time since execute_safe was entered
    esTool,           \* the tool's execute: "not_started" | "running" | "finished" | "cancelled"
    esReceived,       \* the keyword arguments execute(**kwargs) was entered with
    esResult,         \* what execute_safe returned
    \* ---- FallbackLLMClient ----
    llmConfig,        \* self.config: fallback_enabled and strategy
    llmStats,         \* self.stats
    llmLast,          \* history: the last call, whether the backup was called
    \* ---- HybridScheduler events ----
    event_handlers,   \* self.event_handlers: the registered pairs, oldest first
    evLast,           \* history: the last emit_event and what it evaluated and ran
    \* ---- background tasks of HybridScheduler and AutoConsolidationScheduler ----
    bgPc,             \* where each asyncio task stands
    bgCancel,         \* task.cancel() was called and not yet delivered
    bgRunning,        \* self._running of each component
    bgStop,           \* each component's stop(): "no" | "stopping" | "returned"
    bgFired,          \* history: a job or handler started after stop() returned
    \* ---- several handle() calls on one SupervisorAgent ----
    tnPc,             \* where each handle() call stands
    tnInput,          \* its user_input
    tnSlot,           \* self._pending_confirmation: {} for None, or {the turn that set it}
    tnContext,        \* self._current_context: {} for None, or {the turn that set it}
    tnOverlap,        \* history: a call touched the agent while another was in progress
    \* ---- one TaskManager used by a user turn and by a cron job ----
    coTasks,          \* self.tasks (insertion-ordered dict)
    coFile,           \* lines of storage_path
    coThread,         \* who runs on the event loop's thread: "loop" or a coroutine
    coPc,             \* each coroutine: "outside" a TaskManager call | "unsaved"
    coOp,             \* the TaskManager call each coroutine is in
    coReturned,       \* history: the mutating calls that returned, in order
    \* ---- one MemoryEntry (confidences in thousandths) ----
    meLevel,          \* confidence_level
    meInitial,        \* initial_confidence
    meCurrent,        \* current_confidence
    meDays,           \* (datetime.now() - created_at).days
    meAccess,         \* access_count
    meForget,         \* history: result of the last should_forget(), or "-"
    \* ---- the multi-step loop of one turn, over its pauses and resumes ----
    lpMax,            \* self.max_steps (constructor argument)
    lpLen,            \* len(plan.steps)
    lpCurrent,        \* plan.current_step
    lpCount,          \* local step_count of the running _execute_multi_step
    lpPc,             \* "loop" | "paused" | "ended"
    lpIterations,     \* history: loop iterations performed in this turn
    \* ---- _plan for a multi-step turn ----
    plConfig,         \* self.retry_attempts and self.retry_delay
    plLoop,           \* the retry loop that runs: "multi" | "single" | "returned"
    plAttempt,        \* its loop variable attempt
    plCalls,          \* history: LLM adapter calls made by each planner
    plSleeps,         \* history: the asyncio.sleep calls, in order
    plPlan,           \* the plan returned, or "none"
    \* ---- FallbackMemoryClient ----
    fsDir,            \* the files of data_dir, by stem: <id>.json and index.json
    fsLast,           \* history: the last store and the retrieve after it
    \* ---- ToolRegistry.register ----
    _tools,           \* self._tools: name -> tool
    _schemas,         \* self._schemas: the schema list
    rgCalls           \* history: the tools passed to register, in order

supVars == <<fast_path, pending, pendingAge, pc, user_input, mode, planKind,
             attempt, plan, current_step, step_count, streamFrom, calls, out,
             entryPending, reply>>
taskVars == <<tasks, file, now>>
saveVars == <<saving, savePos, prefixes, crashed>>
memVars == <<using_fallback, fallback_client, primaryDb, fallbackDir, memLast>>
wmVars == <<slots, messages, summary, sysAdded, identitySet, wmLast>>
regVars == <<regLast>>
runVars == <<esPc, esCall, esClock, esTool, esReceived, esResult>>
llmVars == <<llmConfig, llmStats, llmLast>>
evVars == <<event_handlers, evLast>>
bgVars == <<bgPc, bgCancel, bgRunning, bgStop, bgFired>>
tnVars == <<tnPc, tnInput, tnSlot, tnContext, tnOverlap>>
coVars == <<coTasks, coFile, coThread, coPc, coOp, coReturned>>
meVars == <<meLevel, meInitial, meCurrent, meDays, meAccess, meForget>>
lpVars == <<lpMax, lpLen, lpCurrent, lpCount, lpPc, lpIterations>>
plVars == <<plConfig, plLoop, plAttempt, plCalls, plSleeps, plPlan>>
fsVars == <<fsDir, fsLast>>
rgVars == <<_tools, _schemas, rgCalls>>
firstVars == <<supVars, taskVars, saveVars, memVars, wmVars, regVars>>
laterVars == <<runVars, llmVars, evVars, bgVars, tnVars, coVars, meVars, lpVars, plVars, fsVars, rgVars>>

vars == <<firstVars, laterVars>>

\* what each component leaves alone
notSup == <<taskVars, saveVars, memVars, wmVars, regVars, laterVars>>
notTask == <<supVars, saveVars, memVars, wmVars, regVars, laterVars>>
notSave == <<supVars, memVars, wmVars, regVars, laterVars>>
notMem == <<supVars, taskVars, saveVars, wmVars, regVars, laterVars>>
notWm == <<supVars, taskVars, saveVars, memVars, regVars, laterVars>>
notReg == <<supVars, taskVars, saveVars, memVars, wmVars, laterVars>>
notRun == <<firstVars, llmVars, evVars, bgVars, tnVars, coVars, meVars, lpVars, plVars, fsVars, rgVars>>

notLlm == <<firstVars, runVars, evVars, bgVars, tnVars, coVars, meVars, lpVars, plVars, fsVars, rgVars>>

notEv == <<firstVars, runVars, llmVars, bgVars, tnVars, coVars, meVars, lpVars, plVars, fsVars, rgVars>>

notBg == <<firstVars, runVars, llmVars, evVars, tnVars, coVars, meVars, lpVars, plVars, fsVars, rgVars>>

notTn == <<firstVars, runVars, llmVars, evVars, bgVars, coVars, meVars, lpVars, plVars, fsVars, rgVars>>

notCo == <<firstVars, runVars, llmVars, evVars, bgVars, tnVars, meVars, lpVars, plVars, fsVars, rgVars>>

notMe == <<firstVars, runVars, llmVars, evVars, bgVars, tnVars, coVars, lpVars, plVars, fsVars, rgVars>>

notLp == <<firstVars, runVars, llmVars, evVars, bgVars, tnVars, coVars, meVars, plVars, fsVars, rgVars>>

notPl == <<firstVars, runVars, llmVars, evVars, bgVars, tnVars, coVars, meVars, lpVars, fsVars, rgVars>>

notFs == <<firstVars, runVars, llmVars, evVars, bgVars, tnVars, coVars, meVars, lpVars, plVars, rgVars>>

notRg == <<firstVars, runVars, llmVars, evVars, bgVars, tnVars, coVars, meVars, lpVars, plVars, fsVars>>

-----------------------------------------------------------------------------
(* Bounds *)

\* longest plan the multi-step planner returns in the model
MaxPlanLen == 2
\* number of task ids
MaxTasks == 1
\* file contents remembered as results of completed mutations
MaxPrefixes == 4
\* number of memory entries
MaxEntries == 2
\* WorkingMemoryConfig.max_slots of the modelled configuration (default 10)
max_slots == 3
\* WorkingMemoryConfig.max_messages of the modelled configuration (default 20)
max_messages == 6
\* messages in the buffer when add_message is called
MaxBuffer == 6
\* last tick of the clock
MaxTime == 1
\* longest timeout given to execute_safe, in ticks
MaxTimeout == 2
\* longest time a tool's execute needs, in ticks
MaxDuration == 3
\* requests a FallbackLLMClient serves
MaxRequests == 2
\* event handlers registered with a scheduler
MaxHandlers == 3
\* handle() calls issued on one SupervisorAgent
MaxTurns == 2
\* task ids the two coroutines work on
MaxSharedTasks == 2
\* mutating TaskManager calls in one behaviour
MaxMutations == 3
\* days a MemoryEntry is followed
MaxDays == 3
\* access() calls on a MemoryEntry
MaxAccess == 11
\* largest max_steps given to the constructor
MaxStepsArg == 2
\* longest plan of the multi-step loop
MaxLoopPlan == 5
\* largest retry_attempts given to the constructor
MaxRetryArg == 3
\* register calls in one behaviour
MaxRegisters == 4

-----------------------------------------------------------------------------
(* Part 1: SupervisorAgent *)

max_steps == 10
retry_attempts == 3
enable_streaming == TRUE

\* ---- user inputs ----

Inputs ==
    { <<>>,                      \* ""
      <<"yes">>,
      <<"YES", " ">>,            \* "YES "
      <<"y">>,
      <<"shanchu">>,             \* delete: affirmative and a delete keyword
      <<"no">>,
      <<"buyao">>,               \* "don't": negative and a delete keyword
      <<"x">>,                   \* any other request
      <<"chakan">>,              \* "view"
      <<"qingli", "x">>,         \* "clean up ..."
      <<"nihao">>,               \* short greeting
      <<"nihao", "filler20">>,   \* greeting of 20 characters or more
      <<"zhenglibing", "x">> }   \* "organise and ..."

\* str.lower()
LowerTok(t) == IF t = "YES" THEN "yes" ELSE t
Lower(s) == [i \in DOMAIN s |-> LowerTok(s[i])]

\* str.strip()
RECURSIVE StripLeft(_)
StripLeft(s) ==
    IF s # <<>> /\ Head(s) = " " THEN StripLeft(Tail(s)) ELSE s
RECURSIVE StripRight(_)
StripRight(s) ==
    IF s # <<>> /\ s[Len(s)] = " " THEN StripRight(SubSeq(s, 1, Len(s) - 1)) ELSE s
Strip(s) == StripRight(StripLeft(s))

\* kw in s
Contains(s, kw) == \E i \in DOMAIN s : s[i] = kw

\* len(s), in characters
TokLen(t) ==
    CASE t = "filler20" -> 20
      [] t \in {"yes", "YES", "zhenglibing"} -> 3
      [] t \in {"x", "y", "n", " "} -> 1
      [] OTHER -> 2
RECURSIVE StrLen(_)
StrLen(s) == IF s = <<>> THEN 0 ELSE TokLen(Head(s)) + StrLen(Tail(s))

confirmation_keywords ==
    {"queren", "yes", "shi", "queding", "haode", "zhixing", "shanchu", "qingli"}
cancel_keywords ==
    {"quxiao", "cancel", "no", "fou", "bu", "suanle", "buyao"}

_is_confirmation(s) == \E kw \in confirmation_keywords : Strip(Lower(s)) = <<kw>>
_is_cancel(s) == \E kw \in cancel_keywords : Strip(Lower(s)) = <<kw>>

\* the two literal lists of continue_with_input (lower(), no strip())
continue_yes == {"yes", "y", "queren", "shi"}
continue_no == {"no", "n", "quxiao", "fou"}
IsContinueYes(s) == \E kw \in continue_yes : Lower(s) = <<kw>>
IsContinueNo(s) == \E kw \in continue_no : Lower(s) = <<kw>>

simple_patterns == {"nihao", "hai", "hello", "hi", "xiexie", "zaijian", "baibai"}
complex_multi_indicators == {"ranhou", "zhenglibing", "zongjiesuoyou", "fenxibing"}

_analyze_intent(s) ==
    IF (\E p \in simple_patterns : Contains(Lower(s), p)) /\ StrLen(s) < 20
    THEN "fast_path"
    ELSE IF \E i \in complex_multi_indicators : Contains(s, i)
    THEN "multi_step"
    ELSE "single_step"

reflect_delete_keywords ==
    {"qingli", "shanchu", "yichu", "qingkong", "buyao", "qudiao", "shandiao"}
reflect_view_keywords == {"chakan", "xianshi", "youshenme", "liechu", "kankan"}
reflect_keep_delete == {"qingli", "shanchu", "yichu"}

\* the tool to retry with, or "None"
_reflect_on_result(s, tool_name) ==
    IF tool_name = "list_tasks"
       /\ \E kw \in reflect_delete_keywords : Contains(Lower(s), kw)
    THEN "delete_tasks"
    ELSE IF tool_name = "delete_tasks"
            /\ (\E kw \in reflect_view_keywords : Contains(Lower(s), kw))
            /\ ~(\E kw \in reflect_keep_delete : Contains(Lower(s), kw))
    THEN "list_tasks"
    ELSE "None"

\* ---- parameters: a dict is a set of <<key, value>> pairs ----

NoParams == {}
Keys(p) == {kv[1] : kv \in p}
Get(p, k) == IF k \in Keys(p) THEN (CHOOSE kv \in p : kv[1] = k)[2] ELSE "None"
Put(p, k, v) == {kv \in p : kv[1] # k} \cup {<<k, v>>}
\* bool(value)
Truthy(v) == v \notin {"None", "false", "[]"}

\* ---- tools ----

Registered == {"chat", "list_tasks", "delete_tasks", "clear_history"}

Declared(tool) ==
    CASE tool = "chat" -> {"message"}
      [] tool = "list_tasks" -> {"status", "limit"}
      [] tool = "delete_tasks" -> {"task_ids", "delete_all", "confirmed"}
      [] tool = "clear_history" -> {"confirm"}
      [] OTHER -> {}

Result(ok, d, nc, f) ==
    [success |-> ok, data |-> d, needs_confirmation |-> nc, fault |-> f]
Success == Result(TRUE, "dict", FALSE, "none")
NeedsConfirmation == Result(TRUE, "dict", TRUE, "none")
Failure(f) == Result(FALSE, "None", FALSE, f)

\* Tool.validate_params: required parameters and enum values
validate_params(tool, p) ==
    /\ (tool = "chat" => Get(p, "message") # "None")
    /\ (tool = "list_tasks" =>
            Get(p, "status") \in {"None", "pending", "completed", "all"})

\* what the tool's own execute(**kwargs) can return
ToolBody(tool, p) ==
    IF tool # "chat" /\ ~(Keys(p) \subseteq Declared(tool))
    THEN {Failure("exception")}          \* TypeError: unexpected keyword
    ELSE CASE tool = "chat" -> {Success}
           [] tool = "list_tasks" -> {Success}
           [] tool = "delete_tasks" ->
                IF ~Truthy(Get(p, "confirmed"))
                THEN {NeedsConfirmation, Success}    \* pending tasks or none
                ELSE IF Truthy(Get(p, "delete_all")) \/ Truthy(Get(p, "task_ids"))
                THEN {Success}
                ELSE {Failure("exception")}
           [] tool = "clear_history" ->
                IF ~Truthy(Get(p, "confirm")) THEN {NeedsConfirmation} ELSE {Success}
           [] OTHER -> {Failure("exception")}

\* Tool.execute_safe
execute_safe(tool, p) ==
    IF ~validate_params(tool, p)
    THEN {Failure("validation")}
    ELSE ToolBody(tool, p) \cup {Failure("timeout")}

\* ToolRegistry.execute: the set of results the call can return
execute(tool, p) ==
    IF tool \notin Registered THEN {Failure("unknown")} ELSE execute_safe(tool, p)

Call(tool, p, r) == [tool_name |-> tool, params |-> p, result |-> r]

\* ---- what the LLM adapter can answer ----

ChatParams == {<<"message", "input">>}

\* first tool call of generate_with_tools
ToolCalls ==
    { [tool_name |-> "list_tasks", parameters |-> NoParams],
      [tool_name |-> "list_tasks", parameters |-> {<<"status", "pending">>}],
      [tool_name |-> "list_tasks", parameters |-> {<<"status", "bogus">>}],
      [tool_name |-> "delete_tasks", parameters |-> NoParams],
      [tool_name |-> "delete_tasks", parameters |-> {<<"confirmed", "false">>}],
      [tool_name |-> "delete_tasks",
       parameters |-> {<<"delete_all", "false">>, <<"confirmed", "false">>}],
      [tool_name |-> "delete_tasks", parameters |-> {<<"task_ids", "[t1]">>}],
      [tool_name |-> "delete_tasks",
       parameters |-> {<<"delete_all", "true">>, <<"confirmed", "true">>}],
      [tool_name |-> "clear_history", parameters |-> NoParams],
      [tool_name |-> "chat", parameters |-> NoParams],
      [tool_name |-> "ghost", parameters |-> NoParams] }

\* steps of the JSON plan of _plan_multi_step
StepChoices ==
    { [tool_name |-> "list_tasks", parameters |-> NoParams],
      [tool_name |-> "delete_tasks",
       parameters |-> {<<"delete_all", "true">>, <<"confirmed", "false">>}],
      [tool_name |-> "clear_history", parameters |-> NoParams],
      [tool_name |-> "ghost", parameters |-> NoParams] }

Step(i, c) ==
    [id |-> i, tool_name |-> c.tool_name, parameters |-> c.parameters,
     status |-> "pending"]

MultiPlans ==
    UNION { [1..n -> StepChoices] : n \in 0..MaxPlanLen }

MakePlan(choice) == [i \in DOMAIN choice |-> Step(i - 1, choice[i])]

ChatPlan == <<Step(0, [tool_name |-> "chat", parameters |-> ChatParams])>>

\* values of INTENT_TO_TOOL_MAP the classifier can lead to
FastTools == {"chat", "list_tasks", "delete_tasks", "clear_history", "ghost"}

\* ---- state ----

NoPending == [tool_name |-> "None", params |-> NoParams]
NoReply == <<"-">>
Quiescent == {"idle", "done", "raised", "paused"}

SupInit ==
    /\ fast_path \in BOOLEAN
    /\ pending = NoPending
    /\ pendingAge = 0
    /\ pc = "idle"
    /\ user_input = <<>>
    /\ mode = "none"
    /\ planKind = "none"
    /\ attempt = 0
    /\ plan = <<>>
    /\ current_step = 0
    /\ step_count = 0
    /\ streamFrom = "none"
    /\ calls = <<>>
    /\ out = <<>>
    /\ entryPending = NoPending
    /\ reply = NoReply

is_complete == current_step >= Len(plan)

\* handle(), up to the first await
Handle ==
    \E s \in Inputs :
        /\ pc \in Quiescent
        /\ user_input' = s
        /\ entryPending' = pending
        /\ pendingAge' = IF pending = NoPending THEN 0
                         ELSE IF pendingAge < 2 THEN pendingAge + 1 ELSE 2
        /\ calls' = <<>>
        /\ reply' = NoReply
        /\ attempt' = 0
        /\ step_count' = 0
        /\ streamFrom' = "none"
        /\ UNCHANGED <<fast_path, pending>>
        /\ IF pending # NoPending /\ _is_confirmation(s)
           THEN /\ pc' = "confirming"
                /\ out' = <<>>
                /\ mode' = "none"
                /\ planKind' = "none"
                /\ UNCHANGED <<plan, current_step>>
           ELSE /\ mode' = _analyze_intent(s)
                /\ out' = <<"thinking">>
                /\ plan' = <<>>
                /\ current_step' = 0
                /\ planKind' = CASE mode' = "single_step" -> "single"
                                 [] mode' = "multi_step" -> "multi"
                                 [] OTHER -> "none"
                /\ pc' = CASE mode' = "fast_path" /\ fast_path -> "exec_fast"
                           [] mode' = "fast_path" /\ ~fast_path -> "done"
                           [] OTHER -> "planning"

\* variant: the delete_all default only when both keys are absent
ConfirmParamsWhenAbsent(slot) ==
    LET p == Put(slot.params, "confirmed", "true")
    IN  IF slot.tool_name = "delete_tasks"
           /\ "task_ids" \notin Keys(p) /\ "delete_all" \notin Keys(p)
        THEN Put(p, "delete_all", "true")
        ELSE p

\* the call _execute_confirmation makes
ConfirmParams(slot) ==
    LET p == Put(slot.params, "confirmed", "true")
    IN  IF slot.tool_name = "delete_tasks"
           /\ ~Truthy(Get(p, "task_ids")) /\ ~Truthy(Get(p, "delete_all"))
        THEN Put(p, "delete_all", "true")
        ELSE p

\* _execute_confirmation
ExecuteConfirmation ==
    /\ pc = "confirming"
    /\ pc' = "done"
    /\ IF pending = NoPending
       THEN /\ out' = Append(out, "no_pending")
            /\ UNCHANGED <<pending, calls>>
       ELSE IF _is_cancel(user_input)
       THEN /\ pending' = NoPending
            /\ out' = Append(out, "cancelled")
            /\ UNCHANGED calls
       ELSE \E r \in execute(pending.tool_name, ConfirmParams(pending)) :
                /\ calls' = Append(calls, Call(pending.tool_name, ConfirmParams(pending), r))
                /\ pending' = NoPending
                /\ out' = out \o <<"thinking", IF r.success THEN "observation" ELSE "failure">>
    /\ UNCHANGED <<fast_path, pendingAge, user_input, mode, planKind, attempt, plan,
                   current_step, step_count, streamFrom, entryPending, reply>>

\* handle() after _plan returned: the branch on mode
AfterPlan(steps) ==
    /\ plan' = steps
    /\ attempt' = 0          \* the planner's loop variable is gone
    /\ current_step' = 0
    /\ step_count' = 0
    /\ IF mode = "multi_step"
       THEN /\ out' = Append(out, "plan_count")
            /\ pc' = "exec_multi"
       ELSE /\ out' = out
            /\ pc' = "exec_single"

\* _plan_single_step_with_retry, one attempt
PlanSingle ==
    /\ pc = "planning"
    /\ planKind = "single"
    /\ \/ \* generate_with_tools raised
          /\ IF attempt + 1 < retry_attempts
             THEN /\ attempt' = attempt + 1
                  /\ UNCHANGED <<plan, current_step, step_count, out, pc>>
             ELSE AfterPlan(ChatPlan)
       \/ \* the response carries tool calls: the first one is the step
          \E tc \in ToolCalls :
              AfterPlan(<<Step(0, tc)>>)
       \/ \* no tool call: the chat pseudo-tool
          AfterPlan(ChatPlan)
    /\ UNCHANGED <<fast_path, pending, pendingAge, user_input, mode, planKind,
                   streamFrom, calls, entryPending, reply>>

\* _plan_multi_step_with_retry, one attempt
PlanMulti ==
    /\ pc = "planning"
    /\ planKind = "multi"
    /\ \/ \* generate raised, or the answer was empty or no JSON
          /\ IF attempt + 1 < retry_attempts
             THEN /\ attempt' = attempt + 1
                  /\ planKind' = planKind
             ELSE /\ attempt' = 0
                  /\ planKind' = "single"
          /\ UNCHANGED <<plan, current_step, step_count, out, pc>>
       \/ \E choice \in MultiPlans :
              /\ AfterPlan(MakePlan(choice))
              /\ UNCHANGED planKind
    /\ UNCHANGED <<fast_path, pending, pendingAge, user_input, mode,
                   streamFrom, calls, entryPending, reply>>

\* _execute_single_step on a plan without steps (the fast path's fallback)
NoStepsOut == Append(out, "no_steps")

\* the result _execute_single_step goes on with after reflection: r1 is the
\* result of the planned call, r2 that of the retry when reflection asks for one
Reflected(step, r1, r2) ==
    LET retry_tool == _reflect_on_result(user_input, step.tool_name)
    IN  IF retry_tool = "None"
        THEN [tool_name |-> step.tool_name, result |-> r1, retried |-> FALSE,
              calls |-> <<Call(step.tool_name, step.parameters, r1)>>]
        ELSE [tool_name |-> IF r2.success THEN retry_tool ELSE step.tool_name,
              result |-> IF r2.success THEN r2 ELSE r1,
              retried |-> TRUE,
              calls |-> <<Call(step.tool_name, step.parameters, r1),
                          Call(retry_tool, NoParams, r2)>>]

\* what _execute_single_step stores in self._pending_confirmation
Latch(tool_name, step) == [tool_name |-> tool_name, params |-> step.parameters]

\* _execute_single_step
ExecuteSingleStep ==
    /\ pc = "exec_single"
    /\ IF plan = <<>>
       THEN /\ out' = NoStepsOut
            /\ pc' = "done"
            /\ UNCHANGED <<pending, pendingAge, plan, streamFrom, calls>>
       ELSE LET step == plan[1] IN
            \E r1 \in execute(step.tool_name, step.parameters) :
              IF ~r1.success
              THEN /\ calls' = Append(calls, Call(step.tool_name, step.parameters, r1))
                   /\ plan' = [plan EXCEPT ![1].status = "failed"]
                   /\ out' = Append(out, "failure")
                   /\ pc' = "done"
                   /\ UNCHANGED <<pending, pendingAge, streamFrom>>
              ELSE \E r2 \in (IF _reflect_on_result(user_input, step.tool_name) = "None"
                              THEN {r1}
                              ELSE execute(_reflect_on_result(user_input, step.tool_name),
                                           NoParams)) :
                     LET rf == Reflected(step, r1, r2)
                         o1 == IF rf.retried THEN Append(out, "adjust") ELSE out
                     IN  /\ calls' = calls \o rf.calls
                         /\ plan' = [plan EXCEPT ![1].status = "completed",
                                                 ![1].tool_name = rf.tool_name]
                         /\ IF rf.result.data # "None" /\ rf.result.needs_confirmation
                            THEN /\ pending' = Latch(rf.tool_name, step)
                                 /\ pendingAge' = 0
                                 /\ out' = Append(o1, "observation")
                                 /\ pc' = "done"
                                 /\ UNCHANGED streamFrom
                            ELSE IF rf.tool_name = "chat" /\ enable_streaming
                            THEN /\ out' = o1
                                 /\ pc' = "chat_stream"
                                 /\ streamFrom' = "single"
                                 /\ UNCHANGED <<pending, pendingAge>>
                            ELSE /\ out' = Append(o1, "observation")
                                 /\ pc' = "done"
                                 /\ UNCHANGED <<pending, pendingAge, streamFrom>>
    /\ UNCHANGED <<fast_path, user_input, mode, planKind, attempt, current_step,
                   step_count, entryPending, reply>>

\* _generate_chat_response_stream / _generate_response_stream
GenerateChatResponseStream ==
    /\ pc = "chat_stream"
    /\ \E llm \in {"stream_ok", "generate_ok", "both_raise"} :
          IF llm # "both_raise"
          THEN /\ out' = out \o <<"chunk", "newline">>
               /\ pc' = "done"
          ELSE IF streamFrom = "fast"
          THEN \* caught by _execute_fast_path, which falls back to
               \* _execute_single_step on its plan without steps
               /\ out' = NoStepsOut
               /\ pc' = "done"
          ELSE \* nothing between here and the caller of handle() catches it
               /\ out' = out
               /\ pc' = "raised"
    /\ UNCHANGED <<fast_path, pending, pendingAge, user_input, mode, planKind, attempt,
                   plan, current_step, step_count, streamFrom, calls, entryPending, reply>>

\* _execute_fast_path
ExecuteFastPath ==
    /\ pc = "exec_fast"
    /\ \/ \* classify raised: fall back to _execute_single_step
          /\ out' = NoStepsOut
          /\ pc' = "done"
          /\ UNCHANGED <<calls, streamFrom>>
       \/ \E intent_tool \in FastTools :
            LET tool_name == IF intent_tool \in Registered THEN intent_tool ELSE "chat"
                p == IF tool_name = "chat" THEN ChatParams ELSE NoParams
            IN  \E r \in execute(tool_name, p) :
                  /\ calls' = Append(calls, Call(tool_name, p, r))
                  /\ IF tool_name = "chat" /\ enable_streaming
                     THEN /\ pc' = "chat_stream"
                          /\ streamFrom' = "fast"
                          /\ out' = out
                     ELSE /\ pc' = "done"
                          /\ out' = Append(out, "observation")
                          /\ UNCHANGED streamFrom
    /\ UNCHANGED <<fast_path, pending, pendingAge, user_input, mode, planKind, attempt,
                   plan, current_step, step_count, entryPending, reply>>

\* one iteration of the while loop of _execute_multi_step
ExecuteMultiStep ==
    /\ pc = "exec_multi"
    /\ ~is_complete
    /\ step_count < max_steps
    /\ LET i == current_step + 1
           step == plan[i]
       IN  \E r \in execute(step.tool_name, step.parameters) :
             /\ calls' = Append(calls, Call(step.tool_name, step.parameters, r))
             /\ IF r.data = "None"
                THEN \* result.data.get(...) on None: AttributeError
                     /\ plan' = [plan EXCEPT ![i].status = "running"]
                     /\ out' = Append(out, "progress")
                     /\ pc' = "raised"
                     /\ UNCHANGED <<current_step, step_count>>
                ELSE IF r.needs_confirmation
                THEN /\ plan' = [plan EXCEPT ![i].status = "needs_clarification"]
                     /\ out' = out \o <<"progress", "observation", "need_input">>
                     /\ pc' = "paused"
                     /\ UNCHANGED <<current_step, step_count>>
                ELSE /\ plan' = [plan EXCEPT ![i].status =
                                    IF r.success THEN "completed" ELSE "failed"]
                     /\ out' = out \o <<"progress",
                                       IF r.success THEN "step_ok" ELSE "step_failed">>
                     /\ current_step' = current_step + 1
                     /\ step_count' = step_count + 1
                     /\ pc' = pc
    /\ UNCHANGED <<fast_path, pending, pendingAge, user_input, mode, planKind, attempt,
                   streamFrom, entryPending, reply>>

LoopEnds == is_complete \/ step_count >= max_steps

\* the while condition of _execute_multi_step is false: the generator ends
ExecuteMultiStepEnd ==
    /\ pc = "exec_multi"
    /\ LoopEnds
    /\ pc' = "done"
    /\ UNCHANGED <<fast_path, pending, pendingAge, user_input, mode, planKind, attempt,
                   plan, current_step, step_count, streamFrom, calls, out,
                   entryPending, reply>>

\* variant: the reply is accepted but the flag is not set
StepParamsUnchanged(p) == p

\* step.parameters["confirmed"] = True
StepParamsConfirmed(p) == Put(p, "confirmed", "true")

\* continue_with_input
ContinueWithInput ==
    \E s \in Inputs :
        /\ pc = "paused"
        /\ reply' = s
        /\ IF is_complete
           THEN /\ out' = Append(out, "no_step")
                /\ pc' = "done"
                /\ UNCHANGED <<plan, current_step, step_count, calls>>
           ELSE LET i == current_step + 1 IN
                IF IsContinueYes(s)
                THEN LET p == StepParamsConfirmed(plan[i].parameters) IN
                     \E r \in execute(plan[i].tool_name, p) :
                        /\ plan' = [plan EXCEPT ![i].parameters = p]
                        /\ calls' = Append(calls, Call(plan[i].tool_name, p, r))
                        /\ IF r.success
                           THEN /\ out' = Append(out, "confirm_ok")
                                /\ current_step' = current_step + 1
                                /\ step_count' = 0
                                /\ pc' = IF current_step' >= Len(plan)
                                         THEN "done" ELSE "exec_multi"
                           ELSE /\ out' = Append(out, "confirm_failed")
                                /\ pc' = "done"
                                /\ UNCHANGED <<current_step, step_count>>
                ELSE IF IsContinueNo(s)
                THEN /\ out' = Append(out, "cancelled")
                     /\ plan' = [plan EXCEPT ![i].status = "cancelled"]
                     /\ current_step' = current_step + 1
                     /\ pc' = "done"
                     /\ UNCHANGED <<step_count, calls>>
                ELSE /\ out' = Append(out, "reprompt")
                     /\ pc' = "done"
                     /\ UNCHANGED <<plan, current_step, step_count, calls>>
        /\ UNCHANGED <<fast_path, pending, pendingAge, user_input, mode, planKind,
                       attempt, streamFrom, entryPending>>

SupNext ==
    \/ Handle /\ UNCHANGED notSup
    \/ ExecuteConfirmation /\ UNCHANGED notSup
    \/ PlanSingle /\ UNCHANGED notSup
    \/ PlanMulti /\ UNCHANGED notSup
    \/ ExecuteSingleStep /\ UNCHANGED notSup
    \/ GenerateChatResponseStream /\ UNCHANGED notSup
    \/ ExecuteFastPath /\ UNCHANGED notSup
    \/ ExecuteMultiStep /\ UNCHANGED notSup
    \/ ExecuteMultiStepEnd /\ UNCHANGED notSup
    \/ ContinueWithInput /\ UNCHANGED notSup

-----------------------------------------------------------------------------
(* Part 2: TaskManager *)

Statuses ==
    {"pending", "in_progress", "waiting", "blocked", "completed", "cancelled", "archived"}

TaskIds == 1..MaxTasks
ArchiveDays == {0, 1}
NoTime == -1

\* a Task: the fields the operations below read or write
NewTask(id, t) ==
    [id |-> id, status |-> "pending", created_at |-> t, completed_at |-> NoTime,
     execution_result |-> "None", waiting_for |-> "None", block_reason |-> "None"]

\* Task.to_dict + json.dumps: one line of the file
to_dict(task) ==
    [wf |-> TRUE, id |-> task.id, status |-> task.status,
     created_at |-> task.created_at, completed_at |-> task.completed_at,
     waiting_for |-> task.waiting_for, block_reason |-> task.block_reason]

\* a line json.loads or Task.from_dict raises on
Malformed ==
    [wf |-> FALSE, id |-> 0, status |-> "-", created_at |-> 0, completed_at |-> NoTime,
     waiting_for |-> "None", block_reason |-> "None"]

\* json.loads + Task.from_dict
from_dict(line) ==
    [id |-> line.id, status |-> line.status, created_at |-> line.created_at,
     completed_at |-> line.completed_at, execution_result |-> "None",
     waiting_for |-> line.waiting_for, block_reason |-> line.block_reason]

Ids(ts) == {ts[i].id : i \in DOMAIN ts}
IndexOf(ts, id) == CHOOSE i \in DOMAIN ts : ts[i].id = id
\* self.tasks[task.id] = task
DictSet(ts, task) ==
    IF task.id \in Ids(ts)
    THEN [ts EXCEPT ![IndexOf(ts, task.id)] = task]
    ELSE Append(ts, task)
\* del self.tasks[id]
DictDel(ts, id) ==
    LET k == IndexOf(ts, id)
    IN  SubSeq(ts, 1, k - 1) \o SubSeq(ts, k + 1, Len(ts))

\* _load_tasks: the first line that raises ends the loop
RECURSIVE LoadFrom(_, _)
LoadFrom(lines, acc) ==
    IF lines = <<>> THEN acc
    ELSE IF ~Head(lines).wf THEN acc
    ELSE LoadFrom(Tail(lines), DictSet(acc, from_dict(Head(lines))))
_load_tasks(lines) == LoadFrom(lines, <<>>)

\* _save_tasks: the file as rewritten from the dict
_save_tasks(ts) == [i \in DOMAIN ts |-> to_dict(ts[i])]

InitialFiles ==
    { <<>>,
      <<to_dict(NewTask(1, 0))>>,
      <<to_dict([NewTask(1, 0) EXCEPT !.status = "cancelled"]), Malformed,
        to_dict(NewTask(2, 0))>> }

TaskInit ==
    /\ \E f \in InitialFiles :
          /\ file = f
          /\ tasks = _load_tasks(f)
    /\ now = 0

StatusOf(ts, id) == IF id \in Ids(ts) THEN ts[IndexOf(ts, id)].status ELSE "-"

\* a call that found no task, or refused: returns False and writes nothing
Refused ==
    UNCHANGED <<tasks, file, now>>

\* a call that put t into the dict, saved and returned True
Stored(t) ==
    /\ tasks' = DictSet(tasks, t)
    /\ file' = _save_tasks(tasks')
    /\ UNCHANGED now

create ==
    \E id \in TaskIds \ Ids(tasks) :
        Stored(NewTask(id, now))

update ==
    \E id \in TaskIds, s \in Statuses :
        IF id \in Ids(tasks)
        THEN Stored([tasks[IndexOf(tasks, id)] EXCEPT !.status = s])
        ELSE Refused

delete ==
    \E id \in TaskIds :
        IF id \in Ids(tasks)
        THEN /\ tasks' = DictDel(tasks, id)
             /\ file' = _save_tasks(tasks')
             /\ UNCHANGED now
        ELSE Refused

complete ==
    \E id \in TaskIds :
        IF id \in Ids(tasks)
        THEN Stored([tasks[IndexOf(tasks, id)] EXCEPT
                                    !.status = "completed",
                                    !.completed_at = now,
                                    !.execution_result = "r"])
        ELSE Refused

start ==
    \E id \in TaskIds :
        IF id \in Ids(tasks) /\ StatusOf(tasks, id) = "pending"
        THEN Stored([tasks[IndexOf(tasks, id)] EXCEPT !.status = "in_progress"])
        ELSE Refused

\* variant: block() without the _save_tasks() call
blockWithoutSave ==
    \E id \in TaskIds :
        IF id \in Ids(tasks)
        THEN /\ tasks' = DictSet(tasks, [tasks[IndexOf(tasks, id)] EXCEPT
                                            !.status = "blocked", !.block_reason = "r"])
             /\ UNCHANGED <<file, now>>
        ELSE Refused

block ==
    \E id \in TaskIds :
        IF id \in Ids(tasks)
        THEN Stored([tasks[IndexOf(tasks, id)] EXCEPT
                                 !.status = "blocked", !.block_reason = "r"])
        ELSE Refused

unblock ==
    \E id \in TaskIds :
        IF id \in Ids(tasks) /\ StatusOf(tasks, id) = "blocked"
        THEN Stored([tasks[IndexOf(tasks, id)] EXCEPT
                                   !.status = "pending", !.block_reason = "None"])
        ELSE Refused

wait_for ==
    \E id \in TaskIds :
        IF id \in Ids(tasks)
        THEN Stored([tasks[IndexOf(tasks, id)] EXCEPT
                                    !.status = "waiting", !.waiting_for = "w"])
        ELSE Refused

\* the tasks archive_old_tasks(days) flips
IsOld(task, days) ==
    /\ task.status \in {"completed", "cancelled"}
    /\ (IF task.completed_at # NoTime THEN task.completed_at ELSE task.created_at)
           < now - days

archive_old_tasks ==
    \E days \in ArchiveDays :
        LET flipped == [i \in DOMAIN tasks |->
                           IF IsOld(tasks[i], days)
                           THEN [tasks[i] EXCEPT !.status = "archived"]
                           ELSE tasks[i]]
        IN  IF flipped # tasks
            THEN /\ tasks' = flipped
                 /\ file' = _save_tasks(tasks')
                 /\ UNCHANGED now
            ELSE Refused

\* time passes
Tick ==
    /\ now < MaxTime
    /\ now' = now + 1
    /\ UNCHANGED <<tasks, file>>

TaskNext ==
    \/ create /\ UNCHANGED notTask
    \/ update /\ UNCHANGED notTask
    \/ delete /\ UNCHANGED notTask
    \/ complete /\ UNCHANGED notTask
    \/ start /\ UNCHANGED notTask
    \/ block /\ UNCHANGED notTask
    \/ unblock /\ UNCHANGED notTask
    \/ wait_for /\ UNCHANGED notTask
    \/ archive_old_tasks /\ UNCHANGED notTask
    \/ Tick /\ UNCHANGED notTask

-----------------------------------------------------------------------------
(* Part 3: _save_tasks as the operating system sees it.  open(path, 'w')    *)
(* truncates the file in place, the lines follow one write at a time, and   *)
(* the process may die between any two of these steps.                      *)

\* the dicts one mutating operation can leave in self.tasks
Mutations(ts) ==
    {DictSet(ts, NewTask(id, 0)) : id \in TaskIds \ Ids(ts)}
        \cup {DictSet(ts, [ts[i] EXCEPT !.status = st]) :
                    i \in DOMAIN ts, st \in Statuses}
        \cup {DictDel(ts, id) : id \in Ids(ts)}

\* the operation changed self.tasks; open(self.storage_path, 'w')
OpenForWrite ==
    /\ ~saving /\ ~crashed
    /\ Cardinality(prefixes) < MaxPrefixes
    /\ \E ts \in Mutations(tasks) : tasks' = ts
    /\ file' = <<>>
    /\ saving' = TRUE
    /\ savePos' = 0
    /\ UNCHANGED <<now, prefixes, crashed>>

\* f.write(json.dumps(task.to_dict()) + newline)
WriteLine ==
    /\ saving /\ ~crashed
    /\ savePos < Len(tasks)
    /\ file' = Append(file, to_dict(tasks[savePos + 1]))
    /\ savePos' = savePos + 1
    /\ UNCHANGED <<tasks, now, saving, prefixes, crashed>>

\* end of the with block: the mutation is complete
CloseFile ==
    /\ saving /\ ~crashed
    /\ savePos = Len(tasks)
    /\ saving' = FALSE
    /\ prefixes' = prefixes \cup {file}
    /\ UNCHANGED <<tasks, file, now, savePos, crashed>>

\* the process dies; a line being written may reach the disk in part
Crash ==
    /\ ~crashed
    /\ crashed' = TRUE
    /\ saving' = FALSE
    /\ \/ file' = file
       \/ /\ saving /\ savePos < Len(tasks)
          /\ file' = Append(file, Malformed)
    /\ UNCHANGED <<tasks, now, savePos, prefixes>>

\* a new process: TaskManager.__init__ on the file the crash left
Restart ==
    /\ crashed
    /\ crashed' = FALSE
    /\ tasks' = _load_tasks(file)
    /\ prefixes' = {file}
    /\ savePos' = 0
    /\ UNCHANGED <<file, now, saving>>

SaveNext ==
    \/ OpenForWrite /\ UNCHANGED notSave
    \/ WriteLine /\ UNCHANGED notSave
    \/ CloseFile /\ UNCHANGED notSave
    \/ Crash /\ UNCHANGED notSave
    \/ Restart /\ UNCHANGED notSave

-----------------------------------------------------------------------------
(* Part 4: MemorySystem (src/src/memory/memory_system.py): routing of store *)
(* and recall between the long-term store and the fallback client.  An      *)
(* entry is its id; a query names the entry it matches.                     *)

Entries == 1..MaxEntries

\* what a retrieval returns: "" when nothing matched, else the formatted hits
Found(source, hits) ==
    IF hits = {} THEN [source |-> "none", hits |-> {}]
    ELSE [source |-> source, hits |-> hits]

NoOp ==
    [op |-> "none", arg |-> 0, touched |-> {}, primaryFailed |-> FALSE,
     ok |-> FALSE, found |-> Found("none", {}), latchedBefore |-> FALSE]

\* __init__ / _init_long_term_memory: the primary opens, or the fallback
\* client replaces it; both stores may hold entries of earlier processes
MemInit ==
    /\ using_fallback \in BOOLEAN
    /\ fallback_client = using_fallback
    /\ primaryDb \in SUBSET Entries
    /\ fallbackDir \in SUBSET Entries
    /\ memLast = NoOp

\* FallbackMemoryClient.store: True, or False when the write fails
FallbackStored(e, written) == IF written THEN fallbackDir \cup {e} ELSE fallbackDir

\* variant: the fallback is used for this store only, without latching
TryFallbackStoreOnce(e, written, touched) ==
    /\ fallback_client' = TRUE
    /\ using_fallback' = using_fallback
    /\ fallbackDir' = FallbackStored(e, written)
    /\ memLast' = [op |-> "store", arg |-> e, touched |-> touched \cup {"fallback"},
                   primaryFailed |-> TRUE, ok |-> written,
                   found |-> Found("none", {}), latchedBefore |-> using_fallback]
    /\ UNCHANGED primaryDb

_try_fallback_store(e, written, touched) ==
    /\ fallback_client' = TRUE
    /\ using_fallback' = TRUE
    /\ fallbackDir' = FallbackStored(e, written)
    /\ memLast' = [op |-> "store", arg |-> e, touched |-> touched \cup {"fallback"},
                   primaryFailed |-> TRUE, ok |-> written,
                   found |-> Found("none", {}), latchedBefore |-> using_fallback]
    /\ UNCHANGED primaryDb

\* capture -> _store_with_fallback
_store_with_fallback ==
    \E e \in Entries, written \in BOOLEAN :
        IF using_fallback /\ fallback_client
        THEN /\ fallbackDir' = FallbackStored(e, written)
             /\ memLast' = [op |-> "store", arg |-> e, touched |-> {"fallback"},
                            primaryFailed |-> FALSE, ok |-> written,
                            found |-> Found("none", {}), latchedBefore |-> TRUE]
             /\ UNCHANGED <<using_fallback, fallback_client, primaryDb>>
        ELSE \/ /\ primaryDb' = primaryDb \cup {e}      \* store returned True
                /\ memLast' = [op |-> "store", arg |-> e, touched |-> {"primary"},
                               primaryFailed |-> FALSE, ok |-> TRUE,
                               found |-> Found("none", {}),
                               latchedBefore |-> using_fallback]
                /\ UNCHANGED <<using_fallback, fallback_client, fallbackDir>>
             \/ _try_fallback_store(e, written, {"primary"})  \* False or raised

\* _fallback_search
_fallback_search(q) ==
    IF ~fallback_client THEN Found("none", {})
    ELSE Found("fallback", {q} \cap fallbackDir)

\* recall -> _retrieve_with_fallback
_retrieve_with_fallback ==
    \E q \in Entries :
        /\ IF using_fallback /\ fallback_client
           THEN memLast' = [op |-> "recall", arg |-> q, touched |-> {"fallback"},
                            primaryFailed |-> FALSE, ok |-> TRUE,
                            found |-> _fallback_search(q), latchedBefore |-> TRUE]
           ELSE \/ memLast' = [op |-> "recall", arg |-> q, touched |-> {"primary"},
                               primaryFailed |-> FALSE, ok |-> TRUE,
                               found |-> Found("primary", {q} \cap primaryDb),
                               latchedBefore |-> using_fallback]
                \/ memLast' = [op |-> "recall", arg |-> q,
                               touched |-> IF fallback_client
                                           THEN {"primary", "fallback"}
                                           ELSE {"primary"},
                               primaryFailed |-> TRUE, ok |-> TRUE,
                               found |-> _fallback_search(q),
                               latchedBefore |-> using_fallback]
        /\ UNCHANGED <<using_fallback, fallback_client, primaryDb, fallbackDir>>

MemNext ==
    \/ _store_with_fallback /\ UNCHANGED notMem
    \/ _retrieve_with_fallback /\ UNCHANGED notMem

-----------------------------------------------------------------------------
(* Part 5: WorkingMemory (src/src/memory/working_memory.py).  Token counts  *)
(* are in units of 250 estimated tokens: max_tokens 2000 is 8, the slot     *)
(* budgets 500 / 500 / 1000 are 2 / 2 / 4.  A message is its role and the   *)
(* estimate_tokens of its content; a slot content is one of a few texts.    *)

max_tokens == 8
identity_tokens == 2
context_tokens == 2
facts_tokens == 4
new_slot_tokens == 2
keep_recent == 5
enable_compression == TRUE

MessageKinds ==
    { [role |-> "system", tok |-> 1],
      [role |-> "user", tok |-> 0],       \* empty content
      [role |-> "user", tok |-> 3] }

IsSystem(m) == m.role = "system"
NotSystem(m) == m.role # "system"

RECURSIVE SumTok(_)
SumTok(msgs) == IF msgs = <<>> THEN 0 ELSE msgs[1].tok + SumTok(Tail(msgs))

\* _calculate_total_tokens
_calculate_total_tokens(msgs) == SumTok(msgs)

\* the Python slice seq[-keep:]
PySuffix(seq, keep) ==
    IF keep = 0 THEN seq
    ELSE IF keep > 0
         THEN SubSeq(seq, IF Len(seq) > keep THEN Len(seq) - keep + 1 ELSE 1, Len(seq))
         ELSE SubSeq(seq, (IF Len(seq) > -keep THEN -keep ELSE Len(seq)) + 1, Len(seq))

\* variant: the last max_messages messages, whatever their role
TrimByCountAnyRole(msgs) ==
    IF Len(msgs) <= max_messages THEN msgs ELSE PySuffix(msgs, max_messages)

\* _trim_by_count
_trim_by_count(msgs) ==
    IF Len(msgs) <= max_messages THEN msgs
    ELSE LET system_msgs == SelectSeq(msgs, IsSystem)
             other_msgs == SelectSeq(msgs, NotSystem)
         IN  system_msgs \o PySuffix(other_msgs, max_messages - Len(system_msgs))

\* self._summary after one more summary is merged into it
Merged(sum) == IF sum = 0 THEN 1 ELSE 2

\* _compress_context: the buffer and the summary it leaves
_compress_context(msgs, sum) ==
    LET system_msgs == SelectSeq(msgs, IsSystem)
        other_msgs == SelectSeq(msgs, NotSystem)
    IN  IF Len(other_msgs) <= keep_recent
        THEN [messages |-> _trim_by_count(msgs), summary |-> sum]
        ELSE [messages |-> system_msgs \o PySuffix(other_msgs, keep_recent),
              summary |-> Merged(sum)]

\* _manage_context; the trigger is total > max_tokens * 0.8
_manage_context(msgs, sum) ==
    IF ~enable_compression
    THEN [messages |-> _trim_by_count(msgs), summary |-> sum]
    ELSE IF 5 * _calculate_total_tokens(msgs) <= 4 * max_tokens
         THEN [messages |-> IF Len(msgs) > max_messages
                            THEN _trim_by_count(msgs) ELSE msgs,
               summary |-> sum]
         ELSE _compress_context(msgs, sum)

\* add_message
add_message ==
    \E m \in MessageKinds :
        LET r == _manage_context(Append(messages, m), summary)
        IN  /\ messages' = r.messages
            /\ summary' = r.summary
            /\ sysAdded' = IF IsSystem(m) THEN Append(sysAdded, m) ELSE sysAdded
            /\ UNCHANGED <<slots, identitySet, wmLast>>

\* variant: the summary goes after the first system message
FirstSystemIndex(msgs) ==
    IF \E i \in DOMAIN msgs : IsSystem(msgs[i])
    THEN CHOOSE i \in DOMAIN msgs :
            IsSystem(msgs[i]) /\ \A j \in DOMAIN msgs : IsSystem(msgs[j]) => i <= j
    ELSE 0

\* get_messages: last_system_idx + 1 as a count of messages, 0 without one
LastSystemIndex(msgs) ==
    IF \E i \in DOMAIN msgs : IsSystem(msgs[i])
    THEN CHOOSE i \in DOMAIN msgs :
            IsSystem(msgs[i]) /\ \A j \in DOMAIN msgs : IsSystem(msgs[j]) => j <= i
    ELSE 0

\* get_messages(include_summary): the dicts handed to the caller
get_messages(include_summary) ==
    LET dicts == [i \in DOMAIN messages |->
                    [role |-> messages[i].role, tok |-> messages[i].tok,
                     injected |-> FALSE]]
        summary_msg == [role |-> "system", tok |-> summary, injected |-> TRUE]
        k == LastSystemIndex(messages)
    IN  IF include_summary /\ summary # 0
        THEN SubSeq(dicts, 1, k) \o <<summary_msg>> \o SubSeq(dicts, k + 1, Len(dicts))
        ELSE dicts

\* ---- slots ----

\* estimate_tokens of the slot contents of the model
ContentTokens(c) ==
    CASE c = "" -> 0
      [] c = "a" -> 1
      [] c = "long" -> 5
      [] c = "...tail" -> 1             \* "..." + the last 80% of the budget
      [] c = "[summary]" -> 1           \* what the LLM answered
      [] c = "...half" -> 2             \* "..." + the last half of the content
      [] OTHER -> 1

Slot(name, content, budget, priority) ==
    [name |-> name, content |-> content, max_tokens |-> budget, priority |-> priority]

\* _init_slots
_init_slots ==
    << Slot("identity", "", identity_tokens, 10),
       Slot("context", "", context_tokens, 5),
       Slot("facts", "", facts_tokens, 3) >>

SlotNames(sl) == {sl[i].name : i \in DOMAIN sl}
SlotIndex(sl, name) == CHOOSE i \in DOMAIN sl : sl[i].name = name

NoWrite == [op |-> "other", name |-> "", priority |-> 0]

WmInit ==
    /\ slots = _init_slots
    /\ messages = <<>>
    /\ summary = 0
    /\ sysAdded = <<>>
    /\ identitySet = ""
    /\ wmLast = NoWrite

\* names and contents write_slot is called with; priority is given in
\* hundredths, so that int(priority * 10) is P \div 10
WriteNames == {"identity", "context", "facts", "s1", "s2"}
WriteContents(name) ==
    CASE name = "identity" -> {"a", "long"}
      [] name = "context" -> {"long"}
      [] OTHER -> {"a"}
WritePriorities == {30, 55}

\* min(non-identity slots, key=priority): the first of the lowest in dict order
LowestSlot(sl) ==
    CHOOSE i \in DOMAIN sl :
        /\ sl[i].name # "identity"
        /\ \A j \in DOMAIN sl : sl[j].name # "identity" =>
              (sl[i].priority < sl[j].priority
               \/ (sl[i].priority = sl[j].priority /\ i <= j))

\* variant: a slot of equal priority is evicted too
MayEvictEqual(slot, P) == slot.priority * 10 <= P

\* lowest_slot.priority < priority * 10
MayEvict(slot, P) == slot.priority * 10 < P

RECURSIVE SlotTokens(_)
SlotTokens(sl) ==
    IF sl = <<>> THEN 0 ELSE ContentTokens(sl[1].content) + SlotTokens(Tail(sl))

\* is_within_limit
is_within_limit ==
    SlotTokens(slots) + _calculate_total_tokens(messages) <= max_tokens

RemoveAt(sl, i) == SubSeq(sl, 1, i - 1) \o SubSeq(sl, i + 1, Len(sl))

\* write_slot(name, content, priority)
write_slot ==
    \E name \in WriteNames, P \in WritePriorities :
      \E content \in WriteContents(name) :
        /\ wmLast' = [op |-> "write_slot", name |-> name, priority |-> P]
        /\ identitySet' = IF name = "identity" THEN content ELSE identitySet
        /\ UNCHANGED <<messages, summary, sysAdded>>
        /\ IF name \in SlotNames(slots)
           THEN slots' = [slots EXCEPT ![SlotIndex(slots, name)].content = content,
                                       ![SlotIndex(slots, name)].priority = P \div 10]
           ELSE LET created == Slot(name, content, new_slot_tokens, P \div 10)
                IN  IF Len(slots) >= max_slots
                    THEN IF (\E i \in DOMAIN slots : slots[i].name # "identity")
                            /\ MayEvict(slots[LowestSlot(slots)], P)
                         THEN slots' = Append(RemoveAt(slots, LowestSlot(slots)), created)
                         ELSE slots' = slots
                    ELSE slots' = Append(slots, created)

\* set_identity
set_identity ==
    \E content \in {"a", "long"} :
        /\ slots' = [slots EXCEPT ![SlotIndex(slots, "identity")].content = content]
        /\ identitySet' = content
        /\ wmLast' = NoWrite
        /\ UNCHANGED <<messages, summary, sysAdded>>

\* variant: compact() without the identity exemption
CompactedAlsoIdentity(slot, llm) ==
    IF ContentTokens(slot.content) <= slot.max_tokens
    THEN slot
    ELSE [slot EXCEPT !.content = "...tail"]

\* compact(): what the loop body leaves in one slot; llm is "none", "ok"
\* or "fails" (generate raises)
Compacted(slot, llm) ==
    IF slot.name = "identity" \/ ContentTokens(slot.content) <= slot.max_tokens
    THEN slot
    ELSE IF slot.name = "context" /\ llm # "none"
         THEN [slot EXCEPT !.content = IF llm = "ok" THEN "[summary]" ELSE "...half"]
         ELSE [slot EXCEPT !.content = "...tail"]

compact ==
    \E llm \in {"none", "ok", "fails"} :
        LET r == _manage_context(messages, summary)
        IN  /\ slots' = [i \in DOMAIN slots |-> Compacted(slots[i], llm)]
            /\ messages' = r.messages
            /\ summary' = r.summary
            /\ wmLast' = NoWrite
            /\ UNCHANGED <<sysAdded, identitySet>>

\* clear_context; self.slots['context'] raises KeyError once that slot is gone
clear_context ==
    IF "context" \in SlotNames(slots)
    THEN /\ slots' = [slots EXCEPT ![SlotIndex(slots, "context")].content = ""]
         /\ messages' = <<>>
         /\ summary' = 0
         /\ sysAdded' = <<>>
         /\ wmLast' = NoWrite
         /\ UNCHANGED identitySet
    ELSE UNCHANGED wmVars

\* the message buffer in use
WmMessageNext ==
    \/ Len(messages) <= MaxBuffer /\ add_message /\ UNCHANGED notWm
    \/ clear_context /\ UNCHANGED notWm

\* the slots in use
WmSlotNext ==
    \/ write_slot /\ UNCHANGED notWm
    \/ set_identity /\ UNCHANGED notWm
    \/ compact /\ UNCHANGED notWm
    \/ clear_context /\ UNCHANGED notWm
    \/ messages = <<>> /\ add_message /\ UNCHANGED notWm

-----------------------------------------------------------------------------
(* Part 6: ToolRegistry.execute and Tool.execute_safe                       *)
(* (src/src/agent/tools/registry.py, src/src/agent/tools/base.py).  A call  *)
(* is evaluated to an outcome: a value or an exception in flight.  The      *)
(* arguments are keyword dicts whose keys do not collide with the names     *)
(* tool_name, timeout and self of the two signatures, and an exception can  *)
(* be formatted with str().                                                 *)

\* the registry holds one tool with one required string parameter
RegisteredTools == {"echo"}
ToolNames == RegisteredTools \cup {"nope"}
Parameters == { [name |-> "text", type |-> "string", required |-> TRUE] }

\* keyword arguments: sets of name / type-of-value pairs
ParamSets ==
    { {},
      { [name |-> "text", type |-> "string"] },
      { [name |-> "text", type |-> "integer"] },
      { [name |-> "text", type |-> "string"], [name |-> "extra", type |-> "string"] } }

\* the timeout argument: a number, or something else (simple_agent passes the
\* parameter dict in its place)
Timeouts == {"number", "not_number"}

\* what tool.execute does with valid arguments
Behaviours ==
    {"returns_ok", "returns_failure", "returns_none", "raises", "raises_timeout",
     "hangs"}

ToolResult(success, error, exception_type) ==
    [kind |-> "ToolResult", success |-> success, error |-> error,
     exception_type |-> exception_type]
Raising(exception_type) ==
    [kind |-> "raised", success |-> FALSE, error |-> "",
     exception_type |-> exception_type]
Returning(value) ==
    [kind |-> value, success |-> FALSE, error |-> "", exception_type |-> ""]

\* validate_params: the error, "" when the arguments pass
Tool_validate_params(params) ==
    IF \E q \in Parameters :
          q.required /\ ~\E a \in params : a.name = q.name
    THEN "missing"
    ELSE IF \E q \in Parameters, a \in params : a.name = q.name /\ a.type # q.type
         THEN "type"
         ELSE ""

\* asyncio.wait_for(self.execute(**kwargs), timeout=timeout)
asyncio_wait_for(behaviour, timeout) ==
    IF timeout # "number" THEN Raising("TypeError")
    ELSE CASE behaviour = "returns_ok" -> ToolResult(TRUE, "", "")
           [] behaviour = "returns_failure" -> ToolResult(FALSE, "tool", "")
           [] behaviour = "returns_none" -> Returning("None")
           [] behaviour = "raises" -> Raising("Exception")
           [] behaviour = "raises_timeout" -> Raising("TimeoutError")
           [] OTHER -> Raising("TimeoutError")      \* cancelled at the timeout

\* the try block of execute_safe
TryExecute(params, behaviour, timeout) ==
    IF Tool_validate_params(params) # ""
    THEN ToolResult(FALSE, Tool_validate_params(params), "")
    ELSE LET result == asyncio_wait_for(behaviour, timeout)
         IN  IF result.kind = "raised" THEN result
             ELSE IF result.kind # "ToolResult"
                  THEN Raising("AttributeError")     \* result.success
                  ELSE result

\* variant: only the except asyncio.TimeoutError clause
CatchTimeoutOnly(outcome) ==
    IF outcome.kind = "raised" /\ outcome.exception_type = "TimeoutError"
    THEN ToolResult(FALSE, "Timeout", "TimeoutError")
    ELSE outcome

\* the except clauses of execute_safe
CatchInExecuteSafe(outcome) ==
    IF outcome.kind # "raised" THEN outcome
    ELSE IF outcome.exception_type = "TimeoutError"
         THEN ToolResult(FALSE, "Timeout", "TimeoutError")
         ELSE ToolResult(FALSE, "exception", outcome.exception_type)

\* Tool.execute_safe(timeout, **kwargs)
Tool_execute_safe(params, behaviour, timeout) ==
    CatchInExecuteSafe(TryExecute(params, behaviour, timeout))

\* ToolRegistry.execute(tool_name, timeout, **params)
ToolRegistry_execute(tool_name, params, behaviour, timeout) ==
    IF tool_name \notin RegisteredTools
    THEN ToolResult(FALSE, "unknown tool", "")
    ELSE LET outcome == Tool_execute_safe(params, behaviour, timeout)
         IN  IF outcome.kind = "raised"
             THEN ToolResult(FALSE, "failed", outcome.exception_type)
             ELSE outcome

NoCall ==
    [via |-> "none", tool_name |-> "", params |-> {}, behaviour |-> "",
     timeout |-> "", outcome |-> Returning("none")]

RegParked == regLast = NoCall

\* a caller awaits ToolRegistry.execute
CallExecute ==
    \E tool_name \in ToolNames, params \in ParamSets, behaviour \in Behaviours,
       timeout \in Timeouts :
        regLast' = [via |-> "execute", tool_name |-> tool_name, params |-> params,
                    behaviour |-> behaviour, timeout |-> timeout,
                    outcome |-> ToolRegistry_execute(tool_name, params, behaviour, timeout)]

\* a caller awaits Tool.execute_safe on a tool it holds
CallExecuteSafe ==
    \E tool_name \in RegisteredTools, params \in ParamSets,
       behaviour \in Behaviours, timeout \in Timeouts :
        regLast' = [via |-> "execute_safe", tool_name |-> tool_name,
                    params |-> params, behaviour |-> behaviour, timeout |-> timeout,
                    outcome |-> Tool_execute_safe(params, behaviour, timeout)]

RegNext ==
    \/ CallExecute /\ UNCHANGED notReg
    \/ CallExecuteSafe /\ UNCHANGED notReg

-----------------------------------------------------------------------------
(* Part 7: one run of Tool.execute_safe in time                             *)
(* (src/src/agent/tools/base.py).  The tool declares one required           *)
(* parameter; its execute either awaits (the event loop runs between its    *)
(* steps) or blocks (a synchronous body inside async def, as in             *)
(* WebSearchTool.execute), and either takes **kwargs (ChatTool.execute) or  *)
(* does not.  Time is counted in ticks.                                     *)

DeclaredNames == {"query"}
RunParams == { {}, {"query"}, {"query", "extra"} }
Styles == {"awaits", "blocks"}

NoRun == [style |-> "", kwargs |-> FALSE, params |-> {}, timeout |-> 0, duration |-> 0]
NoResult == [success |-> FALSE, error |-> "none", n |-> 0, metadata |-> {}]

RunParked ==
    /\ esPc = "idle"
    /\ esCall = NoRun
    /\ esClock = 0
    /\ esTool = "not_started"
    /\ esReceived = {}
    /\ esResult = NoResult

\* validate_params looks at the declared parameters only
ParamsValid(params) == DeclaredNames \subseteq params

\* the four return statements of execute_safe
ValidationFailure == [success |-> FALSE, error |-> "missing", n |-> 0, metadata |-> {}]
Completed == [success |-> TRUE, error |-> "", n |-> 0,
              metadata |-> {"duration", "timestamp"}]
TimedOut(timeout) ==
    [success |-> FALSE, error |-> "Timeout after", n |-> timeout,
     metadata |-> {"duration", "timestamp", "exception_type"}]
Excepted(error) ==
    [success |-> FALSE, error |-> error, n |-> 0,
     metadata |-> {"duration", "timestamp", "exception_type"}]

\* execute_safe is entered: validation, then self.execute(**kwargs) is called
EnterExecuteSafe ==
    /\ esPc = "idle"
    /\ \E style \in Styles, kwargs \in BOOLEAN, params \in RunParams,
          timeout \in 1..MaxTimeout, duration \in 0..MaxDuration :
        /\ esCall' = [style |-> style, kwargs |-> kwargs, params |-> params,
                      timeout |-> timeout, duration |-> duration]
        /\ esClock' = 0
        /\ IF ~ParamsValid(params)
           THEN /\ esPc' = "returned"
                /\ esTool' = "not_started"
                /\ esReceived' = {}
                /\ esResult' = ValidationFailure
           ELSE IF ~kwargs /\ ~(params \subseteq DeclaredNames)
           THEN /\ esPc' = "returned"        \* TypeError: unexpected keyword
                /\ esTool' = "not_started"
                /\ esReceived' = {}
                /\ esResult' = Excepted("TypeError")
           ELSE /\ esPc' = "running"
                /\ esTool' = "running"
                /\ esReceived' = params
                /\ esResult' = NoResult

\* a tick passes while the tool runs; a blocking tool keeps the loop, and
\* with it the timeout callback, from running
ToolRuns ==
    /\ esPc = "running"
    /\ esClock < esCall.duration
    /\ esCall.style = "awaits" => esClock < esCall.timeout
    /\ esClock' = esClock + 1
    /\ UNCHANGED <<esPc, esCall, esTool, esReceived, esResult>>

\* the tool's execute returns and wait_for hands its result on
ToolFinishes ==
    /\ esPc = "running"
    /\ esClock = esCall.duration
    /\ esPc' = "returned"
    /\ esTool' = "finished"
    /\ esResult' = Completed
    /\ UNCHANGED <<esCall, esClock, esReceived>>

\* wait_for's timer fires between two steps of the tool: the task is
\* cancelled and asyncio.TimeoutError is caught
TimeoutFires ==
    /\ esPc = "running"
    /\ esCall.style = "awaits"
    /\ esClock = esCall.timeout
    /\ esPc' = "returned"
    /\ esTool' = "cancelled"
    /\ esResult' = TimedOut(esCall.timeout)
    /\ UNCHANGED <<esCall, esClock, esReceived>>

\* the caller is done with the result
NextCall ==
    /\ esPc = "returned"
    /\ esPc' = "idle"
    /\ esCall' = NoRun
    /\ esClock' = 0
    /\ esTool' = "not_started"
    /\ esReceived' = {}
    /\ esResult' = NoResult

RunNext ==
    \/ EnterExecuteSafe /\ UNCHANGED notRun
    \/ ToolRuns /\ UNCHANGED notRun
    \/ ToolFinishes /\ UNCHANGED notRun
    \/ TimeoutFires /\ UNCHANGED notRun
    \/ NextCall /\ UNCHANGED notRun

-----------------------------------------------------------------------------
(* Part 8: FallbackLLMClient (src/src/chat/fallback_llm.py)                 *)

Strategies == {"fail_fast", "fallback_once", "always_fallback"}

FallbackStats ==
    [total_requests |-> 0, primary_success |-> 0, primary_failures |-> 0,
     fallback_requests |-> 0, fallback_success |-> 0, fallback_failures |-> 0,
     last_error |-> FALSE, using_fallback |-> FALSE]

NoRequest == [op |-> "none", primary |-> "", backup_called |-> FALSE, outcome |-> ""]

LlmParked ==
    /\ llmConfig = [fallback_enabled |-> FALSE, strategy |-> "fallback_once"]
    /\ llmStats = FallbackStats
    /\ llmLast = NoRequest

\* __init__: self._fallback exists exactly when fallback_enabled
LlmInit ==
    /\ llmConfig \in [fallback_enabled : BOOLEAN, strategy : Strategies]
    /\ llmStats = FallbackStats
    /\ llmLast = NoRequest

PrimaryFailed(primary) == primary \in {"raises", "chunks_then_raises"}

\* the try block around self._fallback.generate / stream_generate
TryBackup(stats, op, primary, backup) ==
    IF backup = "ok"
    THEN [stats |-> [stats EXCEPT !.fallback_requests = @ + 1,
                                  !.fallback_success = @ + 1,
                                  !.using_fallback = TRUE],
          last |-> [op |-> op, primary |-> primary, backup_called |-> TRUE,
                    outcome |-> "backup"]]
    ELSE [stats |-> [stats EXCEPT !.fallback_requests = @ + 1,
                                  !.fallback_failures = @ + 1],
          last |-> [op |-> op, primary |-> primary, backup_called |-> TRUE,
                    outcome |-> "raised_both"]]

PrimaryError(stats, op, primary) ==
    [stats |-> stats,
     last |-> [op |-> op, primary |-> primary, backup_called |-> FALSE,
               outcome |-> "raised_primary"]]

\* the except branch of generate
GenerateOnFailure(stats, primary, backup) ==
    IF ~llmConfig.fallback_enabled
    THEN PrimaryError(stats, "generate", primary)
    ELSE IF llmConfig.strategy = "fail_fast"
         THEN PrimaryError(stats, "generate", primary)
         ELSE TryBackup(stats, "generate", primary, backup)

\* the except branch of stream_generate
StreamOnFailure(stats, primary, backup) ==
    IF ~llmConfig.fallback_enabled
    THEN PrimaryError(stats, "stream_generate", primary)
    ELSE TryBackup(stats, "stream_generate", primary, backup)

\* generate(messages)
generate ==
    /\ llmStats.total_requests < MaxRequests
    /\ \E primary \in {"ok", "raises"}, backup \in {"ok", "raises"} :
        LET counted == [llmStats EXCEPT !.total_requests = @ + 1]
            r == IF ~PrimaryFailed(primary)
                 THEN [stats |-> [counted EXCEPT !.primary_success = @ + 1,
                                                 !.using_fallback = FALSE],
                       last |-> [op |-> "generate", primary |-> primary,
                                 backup_called |-> FALSE, outcome |-> "primary"]]
                 ELSE GenerateOnFailure(
                          [counted EXCEPT !.primary_failures = @ + 1,
                                          !.last_error = TRUE],
                          primary, backup)
        IN  /\ llmStats' = r.stats
            /\ llmLast' = r.last
            /\ UNCHANGED llmConfig

\* stream_generate(messages), consumed to its end
stream_generate ==
    /\ llmStats.total_requests < MaxRequests
    /\ \E primary \in {"chunks", "empty", "raises", "chunks_then_raises"},
          backup \in {"ok", "raises"} :
        LET counted == [llmStats EXCEPT !.total_requests = @ + 1]
            r == IF primary = "chunks"
                 THEN [stats |-> [counted EXCEPT !.primary_success = @ + 1,
                                                 !.using_fallback = FALSE],
                       last |-> [op |-> "stream_generate", primary |-> primary,
                                 backup_called |-> FALSE, outcome |-> "primary"]]
                 ELSE IF primary = "empty"
                 THEN [stats |-> counted,
                       last |-> [op |-> "stream_generate", primary |-> primary,
                                 backup_called |-> FALSE, outcome |-> "empty"]]
                 ELSE StreamOnFailure(
                          [counted EXCEPT !.primary_failures = @ + 1,
                                          !.last_error = TRUE],
                          primary, backup)
        IN  /\ llmStats' = r.stats
            /\ llmLast' = r.last
            /\ UNCHANGED llmConfig

LlmNext ==
    \/ generate /\ UNCHANGED notLlm
    \/ stream_generate /\ UNCHANGED notLlm

-----------------------------------------------------------------------------
(* Part 9: HybridScheduler events (src/src/schedule/scheduler.py).  The     *)
(* dict of per-type lists is one sequence of pairs, each with its type; a   *)
(* pair is what its condition and its action do when called.                *)

EventTypes == {"a", "b"}
Pairs ==
    [type : EventTypes, condition : {"true", "false", "raises"},
     action : {"ok", "raises"}]

NoEmit == [type |-> "", n |-> 0, evaluated |-> <<>>, ran |-> <<>>]

EvInit ==
    /\ event_handlers = <<>>
    /\ evLast = NoEmit

EvParked == EvInit

\* register_event(event_type, condition, action)
register_event ==
    /\ Len(event_handlers) < MaxHandlers
    /\ \E pair \in Pairs : event_handlers' = Append(event_handlers, pair)
    /\ UNCHANGED evLast

RECURSIVE EmitLoop(_, _, _, _)
RECURSIVE AfterException(_, _, _, _)

\* variant: one try around the whole loop
StopAtException(hs, type, k, log) == log

\* except Exception: logged, and the for loop goes on
AfterException(hs, type, k, log) == EmitLoop(hs, type, k + 1, log)

\* the for loop of emit_event from pair k on; log is what was evaluated and run
EmitLoop(hs, type, k, log) ==
    IF k > Len(hs) THEN log
    ELSE IF hs[k].type # type THEN EmitLoop(hs, type, k + 1, log)
    ELSE LET seen == [log EXCEPT !.evaluated = Append(@, k)]
         IN  IF hs[k].condition = "raises" THEN AfterException(hs, type, k, seen)
             ELSE IF hs[k].condition = "false" THEN EmitLoop(hs, type, k + 1, seen)
             ELSE LET called == [seen EXCEPT !.ran = Append(@, k)]
                  IN  IF hs[k].action = "raises"
                      THEN AfterException(hs, type, k, called)
                      ELSE EmitLoop(hs, type, k + 1, called)

\* emit_event(event_type, data)
emit_event ==
    /\ \E type \in EventTypes :
         evLast' = EmitLoop(event_handlers, type, 1,
                            [type |-> type, n |-> Len(event_handlers),
                             evaluated |-> <<>>, ran |-> <<>>])
    /\ UNCHANGED event_handlers

EvNext ==
    \/ register_event /\ UNCHANGED notEv
    \/ emit_event /\ UNCHANGED notEv

-----------------------------------------------------------------------------
(* Part 10: the background tasks of HybridScheduler (one cron job, one      *)
(* heartbeat; the tasks a second start() creates for them are cron_2 and    *)
(* heartbeat_2) and of AutoConsolidationScheduler (its loop), and stop()    *)
(* (src/src/schedule/scheduler.py, src/src/schedule/triggers.py,            *)
(* src/src/memory/auto_consolidation.py).  A task is suspended at an await  *)
(* whenever another coroutine runs; a job given by the user may swallow     *)
(* the CancelledError thrown into it ("job_deaf").                          *)

Components == {"scheduler", "consolidation"}
BgTasks == {"cron", "heartbeat", "cron_2", "heartbeat_2", "loop"}
Owner(t) == IF t = "loop" THEN "consolidation" ELSE "scheduler"
\* the registered job or trigger the task runs
Trigger(t) ==
    CASE t \in {"cron", "cron_2"} -> "cron"
      [] t \in {"heartbeat", "heartbeat_2"} -> "heartbeat"
      [] OTHER -> "loop"
\* the tasks a start() call creates: HybridScheduler.start creates one task
\* per job whatever self._running is; AutoConsolidationScheduler.start
\* returns when self._running is set
Created(c) ==
    IF c = "consolidation"
    THEN IF bgRunning[c] THEN {} ELSE {"loop"}
    ELSE IF bgPc["cron"] = "none" THEN {"cron", "heartbeat"}
         ELSE {"cron_2", "heartbeat_2"}
TasksOf(c) == {t \in BgTasks : Owner(t) = c}
Live == {"sleep", "job", "job_deaf", "error_sleep"}

BgInit ==
    /\ bgPc = [t \in BgTasks |-> "none"]
    /\ bgCancel = [t \in BgTasks |-> FALSE]
    /\ bgRunning = [c \in Components |-> FALSE]
    /\ bgStop = [c \in Components |-> "no"]
    /\ bgFired = FALSE

BgParked == BgInit

\* the flag the task's while loop reads: the heartbeat reads its trigger's
\* own _running, which stop() of the scheduler leaves TRUE
LoopFlag(t) == IF Trigger(t) = "heartbeat" THEN TRUE ELSE bgRunning[Owner(t)]

\* start(): the flag is set and the tasks are created
Scheduler_start(c) ==
    /\ bgStop[c] = "no"
    /\ \E t \in Created(c) : bgPc[t] = "none"
    /\ bgRunning' = [bgRunning EXCEPT ![c] = TRUE]
    /\ bgPc' = [t \in BgTasks |-> IF t \in Created(c) THEN "sleep" ELSE bgPc[t]]
    /\ UNCHANGED <<bgCancel, bgStop, bgFired>>

\* the sleep is over: the job, handler or sync runs; a synchronous one is
\* over within the step, an awaited one suspends the task, an exception
\* sends the loop to its sleep in the except branch
Wakes(t) ==
    /\ bgPc[t] = "sleep"
    /\ ~bgCancel[t]
    /\ LoopFlag(t)
    /\ bgFired' = (bgFired \/ bgStop[Owner(t)] = "returned")
    /\ \E next \in {"sleep", "job", "error_sleep"}
                   \cup (IF t = "loop" THEN {} ELSE {"job_deaf"}) :
          bgPc' = [bgPc EXCEPT ![t] = next]
    /\ UNCHANGED <<bgCancel, bgRunning, bgStop>>

\* an awaited job returns or raises; the loop tests its flag again
JobEnds(t) ==
    /\ bgPc[t] \in {"job", "job_deaf"}
    /\ ~bgCancel[t]
    /\ \E next \in {"sleep", "error_sleep"} :
          bgPc' = [bgPc EXCEPT ![t] =
                      IF next = "sleep" /\ ~LoopFlag(t) THEN "exited" ELSE next]
    /\ UNCHANGED <<bgCancel, bgRunning, bgStop, bgFired>>

\* variant: an exception of the job ends the task
ErrorEndsTask(t) ==
    /\ bgPc[t] = "error_sleep"
    /\ ~bgCancel[t]
    /\ bgPc' = [bgPc EXCEPT ![t] = "exited"]
    /\ UNCHANGED <<bgCancel, bgRunning, bgStop, bgFired>>

\* the sleep of the except Exception branch is over
ErrorSleepEnds(t) ==
    /\ bgPc[t] = "error_sleep"
    /\ ~bgCancel[t]
    /\ bgPc' = [bgPc EXCEPT ![t] = IF LoopFlag(t) THEN "sleep" ELSE "exited"]
    /\ UNCHANGED <<bgCancel, bgRunning, bgStop, bgFired>>

\* CancelledError is thrown into the task at its await: it leaves the loop,
\* unless the job it awaits swallows the exception
CancelDelivered(t) ==
    /\ bgCancel[t]
    /\ bgPc[t] \in Live
    /\ bgCancel' = [bgCancel EXCEPT ![t] = FALSE]
    /\ bgPc' = [bgPc EXCEPT ![t] = IF bgPc[t] = "job_deaf" THEN "job_deaf" ELSE "exited"]
    /\ UNCHANGED <<bgRunning, bgStop, bgFired>>

\* stop() up to its await: the flag is cleared and every task is cancelled;
\* AutoConsolidationScheduler.stop returns at once when not running
StopBegins(c) ==
    /\ bgStop[c] = "no"
    /\ IF c = "consolidation" /\ ~bgRunning[c]
       THEN /\ bgStop' = [bgStop EXCEPT ![c] = "returned"]
            /\ UNCHANGED <<bgPc, bgCancel, bgRunning, bgFired>>
       ELSE /\ bgRunning' = [bgRunning EXCEPT ![c] = FALSE]
            /\ bgCancel' = [t \in BgTasks |->
                              IF Owner(t) = c /\ bgPc[t] \in Live THEN TRUE
                              ELSE bgCancel[t]]
            /\ bgStop' = [bgStop EXCEPT ![c] = "stopping"]
            /\ UNCHANGED <<bgPc, bgFired>>

\* variant: stop() does not wait for its tasks
NotAwaited(c) == TRUE

\* await asyncio.gather(*self._tasks) / await self._task is over
Awaited(c) == \A t \in TasksOf(c) : bgPc[t] \notin Live

\* stop() returns
StopReturns(c) ==
    /\ bgStop[c] = "stopping"
    /\ Awaited(c)
    /\ bgStop' = [bgStop EXCEPT ![c] = "returned"]
    /\ UNCHANGED <<bgPc, bgCancel, bgRunning, bgFired>>

BgNext ==
    \/ (\E c \in Components : Scheduler_start(c)) /\ UNCHANGED notBg
    \/ (\E t \in BgTasks : Wakes(t)) /\ UNCHANGED notBg
    \/ (\E t \in BgTasks : JobEnds(t)) /\ UNCHANGED notBg
    \/ (\E t \in BgTasks : ErrorSleepEnds(t)) /\ UNCHANGED notBg
    \/ (\E t \in BgTasks : CancelDelivered(t)) /\ UNCHANGED notBg
    \/ (\E c \in Components : StopBegins(c)) /\ UNCHANGED notBg
    \/ (\E c \in Components : StopReturns(c)) /\ UNCHANGED notBg

-----------------------------------------------------------------------------
(* Part 11: handle() calls issued on the same SupervisorAgent by callers    *)
(* that do not wait for each other (src/src/agent/supervisor.py).  Each     *)
(* call is an async generator; the event loop may resume any call that is   *)
(* suspended at one of its awaits.                                          *)

Turns == 1..MaxTurns
TurnInputs == {"text", "yes"}
InProgress == {"analyzing", "planning", "tool", "confirming"}

TnInit ==
    /\ tnPc = [t \in Turns |-> "not_called"]
    /\ tnInput = [t \in Turns |-> "text"]
    /\ tnSlot = {}
    /\ tnContext = {}
    /\ tnOverlap = FALSE

TnParked == TnInit

\* another call has entered handle() and has not finished
OthersInProgress(t) == \E u \in Turns \ {t} : tnPc[u] \in InProgress

\* handle() up to its first await: the slot is read; a confirming input runs
\* _execute_confirmation up to its await of tools.execute, any other input
\* replaces self._current_context and awaits _analyze_intent
HandleEnters(t) ==
    /\ tnPc[t] = "not_called"
    /\ \E input \in TurnInputs :
          /\ tnInput' = [tnInput EXCEPT ![t] = input]
          /\ IF tnSlot # {} /\ input = "yes"
             THEN /\ tnPc' = [tnPc EXCEPT ![t] = "confirming"]
                  /\ UNCHANGED tnContext
             ELSE /\ tnPc' = [tnPc EXCEPT ![t] = "analyzing"]
                  /\ tnContext' = {t}
    /\ tnOverlap' = (tnOverlap \/ OthersInProgress(t))
    /\ UNCHANGED tnSlot

\* await self._analyze_intent(...) returns; the call awaits self._plan(...)
IntentAnalyzed(t) ==
    /\ tnPc[t] = "analyzing"
    /\ tnPc' = [tnPc EXCEPT ![t] = "planning"]
    /\ UNCHANGED <<tnInput, tnSlot, tnContext, tnOverlap>>

\* the plan is there; _execute_single_step calls tools.execute and awaits it
ToolCalled(t) ==
    /\ tnPc[t] = "planning"
    /\ tnPc' = [tnPc EXCEPT ![t] = "tool"]
    /\ tnOverlap' = (tnOverlap \/ OthersInProgress(t))
    /\ UNCHANGED <<tnInput, tnSlot, tnContext>>

\* the tool returns; a result that needs confirmation is latched in the slot
ToolReturns(t) ==
    /\ tnPc[t] = "tool"
    /\ tnPc' = [tnPc EXCEPT ![t] = "done"]
    /\ \E needs_confirmation \in BOOLEAN :
          /\ tnSlot' = IF needs_confirmation THEN {t} ELSE tnSlot
          /\ tnOverlap' = (tnOverlap \/ (needs_confirmation /\ OthersInProgress(t)))
    /\ UNCHANGED <<tnInput, tnContext>>

\* the confirmed tool returns; _execute_confirmation clears the slot
ConfirmationReturns(t) ==
    /\ tnPc[t] = "confirming"
    /\ tnPc' = [tnPc EXCEPT ![t] = "done"]
    /\ tnSlot' = {}
    /\ tnOverlap' = (tnOverlap \/ OthersInProgress(t))
    /\ UNCHANGED <<tnInput, tnContext>>

TnNext ==
    \/ (\E t \in Turns : HandleEnters(t)) /\ UNCHANGED notTn
    \/ (\E t \in Turns : IntentAnalyzed(t)) /\ UNCHANGED notTn
    \/ (\E t \in Turns : ToolCalled(t)) /\ UNCHANGED notTn
    \/ (\E t \in Turns : ToolReturns(t)) /\ UNCHANGED notTn
    \/ (\E t \in Turns : ConfirmationReturns(t)) /\ UNCHANGED notTn

-----------------------------------------------------------------------------
(* Part 12: one TaskManager mutated by a tool of a user turn and by a job   *)
(* of HybridScheduler._run_cron_job (src/src/task/manager.py,               *)
(* src/src/schedule/scheduler.py).  Both are coroutines of one event loop:  *)
(* a coroutine keeps the thread until it reaches an await.  Every           *)
(* TaskManager method is a plain def: the dict change and _save_tasks()     *)
(* are two statements with no await between them.                           *)

Coroutines == {"turn", "cron"}
SharedIds == 1..MaxSharedTasks
MutationKinds == {"create", "delete", "complete"}
SharedCalls == [by : Coroutines, kind : MutationKinds, id : SharedIds]
NoMutation == [by |-> "-", kind |-> "-", id |-> 0]

CoInit ==
    /\ coTasks = <<>>
    /\ coFile = <<>>
    /\ coThread = "loop"
    /\ coPc = [c \in Coroutines |-> "outside"]
    /\ coOp = [c \in Coroutines |-> NoMutation]
    /\ coReturned = <<>>

CoParked == CoInit

\* the call changes the dict (create returns a fresh id; delete and complete
\* return False on an unknown id and change nothing)
Applies(ts, op) ==
    IF op.kind = "create" THEN op.id \notin Ids(ts) ELSE op.id \in Ids(ts)

\* the dict after the first statement of the call
ApplyMutation(ts, op) ==
    IF op.kind = "create" THEN DictSet(ts, NewTask(op.id, 0))
    ELSE IF op.kind = "delete" THEN DictDel(ts, op.id)
    ELSE DictSet(ts, [ts[IndexOf(ts, op.id)] EXCEPT
                         !.status = "completed", !.completed_at = 0,
                         !.execution_result = "r"])

RECURSIVE Replay(_, _)
Replay(ops, ts) ==
    IF ops = <<>> THEN ts ELSE Replay(Tail(ops), ApplyMutation(ts, Head(ops)))

\* the event loop resumes the tool of the turn, or the cron job after its sleep
Resumes(c) ==
    /\ coThread = "loop"
    /\ coThread' = c
    /\ UNCHANGED <<coTasks, coFile, coPc, coOp, coReturned>>

\* the running coroutine calls create / delete / complete: the dict changes
Mutates(c) ==
    /\ coThread = c
    /\ coPc[c] = "outside"
    /\ Len(coReturned) < MaxMutations
    /\ \E op \in SharedCalls :
          /\ op.by = c
          /\ Applies(coTasks, op)
          /\ coTasks' = ApplyMutation(coTasks, op)
          /\ coOp' = [coOp EXCEPT ![c] = op]
    /\ coPc' = [coPc EXCEPT ![c] = "unsaved"]
    /\ UNCHANGED <<coFile, coThread, coReturned>>

\* the call goes on to self._save_tasks() and returns
Saves(c) ==
    /\ coThread = c
    /\ coPc[c] = "unsaved"
    /\ coFile' = _save_tasks(coTasks)
    /\ coPc' = [coPc EXCEPT ![c] = "outside"]
    /\ coReturned' = Append(coReturned, coOp[c])
    /\ UNCHANGED <<coTasks, coThread, coOp>>

\* variant: the thread can be taken from a coroutine at any statement
AtAnyStatement(p) == TRUE

\* where a coroutine can give up the thread: at an await, and there is none
\* inside a TaskManager call
AtAwait(p) == p = "outside"

\* the running coroutine reaches an await (its sleep, an LLM call, its end)
Suspends(c) ==
    /\ coThread = c
    /\ AtAwait(coPc[c])
    /\ coThread' = "loop"
    /\ UNCHANGED <<coTasks, coFile, coPc, coOp, coReturned>>

CoNext ==
    \/ (\E c \in Coroutines : Resumes(c)) /\ UNCHANGED notCo
    \/ (\E c \in Coroutines : Mutates(c)) /\ UNCHANGED notCo
    \/ (\E c \in Coroutines : Saves(c)) /\ UNCHANGED notCo
    \/ (\E c \in Coroutines : Suspends(c)) /\ UNCHANGED notCo

-----------------------------------------------------------------------------
(* Part 13: MemoryEntry confidence (src/src/memory/types.py).  Confidences  *)
(* and rates are floats in the source; here they are thousandths, and each  *)
(* day's multiplication is rounded down.                                    *)

ConfidenceLevels == {"FACT", "BELIEF", "GOSSIP"}
InitialConfidences == {300, 600, 1000}

\* MemoryConfidence.decay_rate
decay_rate(level) ==
    CASE level = "FACT" -> 8
      [] level = "BELIEF" -> 70
      [] level = "GOSSIP" -> 200

\* initial_confidence * (1 - decay_rate) ** days_passed
RECURSIVE Decayed(_, _, _)
Decayed(initial, rate, days) ==
    IF days = 0 THEN initial
    ELSE (Decayed(initial, rate, days - 1) * (1000 - rate)) \div 1000

Least(a, b) == IF a <= b THEN a ELSE b

\* variant: the boost grows with every access
uncapped_boost(access_count) == access_count * 10

\* freq_boost = min(0.1, self.access_count * 0.01)
freq_boost(access_count) == Least(100, access_count * 10)

\* the value calculate_current_confidence stores and returns
CurrentConfidence(level, initial, days, access_count) ==
    Least(1000, Decayed(initial, decay_rate(level), days) + freq_boost(access_count))

\* an entry as its creators build it: current_confidence = initial_confidence
MeInit ==
    /\ meLevel \in ConfidenceLevels
    /\ meInitial \in InitialConfidences
    /\ meCurrent = meInitial
    /\ meDays = 0
    /\ meAccess = 0
    /\ meForget = "-"

MeParked ==
    /\ meLevel = "FACT"
    /\ meInitial = 1000
    /\ meCurrent = 1000
    /\ meDays = 0
    /\ meAccess = 0
    /\ meForget = "-"

\* a day passes
DayPasses ==
    /\ meDays < MaxDays
    /\ meDays' = meDays + 1
    /\ UNCHANGED <<meLevel, meInitial, meCurrent, meAccess, meForget>>

access ==
    /\ meAccess < MaxAccess
    /\ meAccess' = meAccess + 1
    /\ UNCHANGED <<meLevel, meInitial, meCurrent, meDays, meForget>>

calculate_current_confidence ==
    /\ meCurrent' = CurrentConfidence(meLevel, meInitial, meDays, meAccess)
    /\ UNCHANGED <<meLevel, meInitial, meDays, meAccess, meForget>>

\* should_forget(threshold=0.3)
should_forget ==
    /\ meCurrent' = CurrentConfidence(meLevel, meInitial, meDays, meAccess)
    /\ meForget' = IF meCurrent' < 300 THEN "yes" ELSE "no"
    /\ UNCHANGED <<meLevel, meInitial, meDays, meAccess>>

MeNext ==
    \/ DayPasses /\ UNCHANGED notMe
    \/ access /\ UNCHANGED notMe
    \/ calculate_current_confidence /\ UNCHANGED notMe
    \/ should_forget /\ UNCHANGED notMe

-----------------------------------------------------------------------------
(* Part 14: _execute_multi_step and continue_with_input over one turn       *)
(* (src/src/agent/supervisor.py), for a max_steps smaller than the plan.    *)
(* The planner does not cut a plan to max_steps.                            *)

Replies == {"yes", "no", "other"}

LpInit ==
    /\ lpMax \in 1..MaxStepsArg
    /\ lpLen \in 1..MaxLoopPlan
    /\ lpCurrent = 0
    /\ lpCount = 0
    /\ lpPc = "loop"
    /\ lpIterations = 0

LpParked ==
    /\ lpMax = 1
    /\ lpLen = 1
    /\ lpCurrent = 0
    /\ lpCount = 0
    /\ lpPc = "ended"
    /\ lpIterations = 0

\* while not plan.is_complete and step_count < self.max_steps
LoopGoesOn == lpCurrent < lpLen /\ lpCount < lpMax

\* one iteration: the step's tool runs; a result that needs confirmation
\* yields need_input and returns, any other result moves to the next step
Iterates ==
    /\ lpPc = "loop"
    /\ LoopGoesOn
    /\ lpIterations' = lpIterations + 1
    /\ \E needs_confirmation \in BOOLEAN :
          IF needs_confirmation
          THEN /\ lpPc' = "paused"
               /\ UNCHANGED <<lpCurrent, lpCount>>
          ELSE /\ lpCurrent' = lpCurrent + 1
               /\ lpCount' = lpCount + 1
               /\ UNCHANGED lpPc
    /\ UNCHANGED <<lpMax, lpLen>>

\* the while condition is false
LoopExits ==
    /\ lpPc = "loop"
    /\ ~LoopGoesOn
    /\ lpPc' = "ended"
    /\ UNCHANGED <<lpMax, lpLen, lpCurrent, lpCount, lpIterations>>

\* continue_with_input: "yes" runs the paused step and, when it succeeds and
\* steps remain, calls _execute_multi_step again, whose step_count starts at
\* 0; "no" skips the step and returns; any other reply asks again
continue_with_input ==
    /\ lpPc = "paused"
    /\ \E answer \in Replies, success \in BOOLEAN :
          CASE answer = "yes" /\ success ->
                  /\ lpCurrent' = lpCurrent + 1
                  /\ lpCount' = 0
                  /\ lpPc' = IF lpCurrent' < lpLen THEN "loop" ELSE "ended"
            [] answer = "yes" /\ ~success ->
                  UNCHANGED <<lpCurrent, lpCount, lpPc>>
            [] answer = "no" ->
                  /\ lpCurrent' = lpCurrent + 1
                  /\ lpPc' = "ended"
                  /\ UNCHANGED lpCount
            [] answer = "other" ->
                  UNCHANGED <<lpCurrent, lpCount, lpPc>>
    /\ UNCHANGED <<lpMax, lpLen, lpIterations>>

LpNext ==
    \/ Iterates /\ UNCHANGED notLp
    \/ LoopExits /\ UNCHANGED notLp
    \/ continue_with_input /\ UNCHANGED notLp

-----------------------------------------------------------------------------
(* Part 15: _plan_multi_step_with_retry and _plan_single_step_with_retry    *)
(* (src/src/agent/supervisor.py), with the attempts counted and the sleeps  *)
(* recorded.  retry_delay is in seconds.                                    *)

RetryDelays == {1, 2, 3}
MultiOutcomes == {"no_steps", "one_step", "two_steps"}
SingleOutcomes == {"tool_call", "chat_raw"}

PlInit ==
    /\ plConfig \in [retry_attempts : 0..MaxRetryArg, retry_delay : RetryDelays]
    /\ plLoop = "multi"
    /\ plAttempt = 0
    /\ plCalls = [multi |-> 0, single |-> 0]
    /\ plSleeps = <<>>
    /\ plPlan = "none"

PlParked ==
    /\ plConfig = [retry_attempts |-> 0, retry_delay |-> 1]
    /\ plLoop = "returned"
    /\ plAttempt = 0
    /\ plCalls = [multi |-> 0, single |-> 0]
    /\ plSleeps = <<>>
    /\ plPlan = "chat_raw"

\* variant: the same delay before every attempt
FixedDelay(retry_delay, attempt_) == retry_delay

\* self.retry_delay * (attempt + 1)
Backoff(retry_delay, attempt_) == retry_delay * (attempt_ + 1)

\* the except branch of either loop: sleep unless this was the last attempt
AfterFailure(loop) ==
    /\ plSleeps' = IF plAttempt < plConfig.retry_attempts - 1
                   THEN Append(plSleeps, [loop |-> loop,
                                          seconds |-> Backoff(plConfig.retry_delay, plAttempt)])
                   ELSE plSleeps
    /\ plAttempt' = plAttempt + 1

\* one pass of `for attempt in range(self.retry_attempts)` around
\* _plan_multi_step: llm.generate is called; a plan is returned, or the call,
\* the empty-answer check or the JSON parsing raises
MultiAttempt ==
    /\ plLoop = "multi"
    /\ plAttempt < plConfig.retry_attempts
    /\ plCalls' = [plCalls EXCEPT !.multi = @ + 1]
    /\ \/ \E p \in MultiOutcomes :
             /\ plPlan' = p
             /\ plLoop' = "returned"
             /\ UNCHANGED <<plSleeps, plAttempt>>
       \/ /\ AfterFailure("multi")
          /\ UNCHANGED <<plLoop, plPlan>>
    /\ UNCHANGED plConfig

\* the range is used up: return await self._plan_single_step_with_retry(...)
MultiExhausted ==
    /\ plLoop = "multi"
    /\ plAttempt >= plConfig.retry_attempts
    /\ plLoop' = "single"
    /\ plAttempt' = 0
    /\ UNCHANGED <<plConfig, plCalls, plSleeps, plPlan>>

\* one pass of the loop around _plan_single_step: llm.generate_with_tools
SingleAttempt ==
    /\ plLoop = "single"
    /\ plAttempt < plConfig.retry_attempts
    /\ plCalls' = [plCalls EXCEPT !.single = @ + 1]
    /\ \/ \E p \in SingleOutcomes :
             /\ plPlan' = p
             /\ plLoop' = "returned"
             /\ UNCHANGED <<plSleeps, plAttempt>>
       \/ /\ AfterFailure("single")
          /\ UNCHANGED <<plLoop, plPlan>>
    /\ UNCHANGED plConfig

\* the range is used up: the chat step with message = user_input
SingleExhausted ==
    /\ plLoop = "single"
    /\ plAttempt >= plConfig.retry_attempts
    /\ plLoop' = "returned"
    /\ plPlan' = "chat_raw"
    /\ UNCHANGED <<plConfig, plAttempt, plCalls, plSleeps>>

PlNext ==
    \/ MultiAttempt /\ UNCHANGED notPl
    \/ MultiExhausted /\ UNCHANGED notPl
    \/ SingleAttempt /\ UNCHANGED notPl
    \/ SingleExhausted /\ UNCHANGED notPl

-----------------------------------------------------------------------------
(* Part 16: FallbackMemoryClient (src/src/memory/fallback_client.py) and    *)
(* MemoryEntry.to_dict (src/src/memory/types.py).  A file of data_dir is    *)
(* named by its stem; an optional value is a set with at most one element.  *)

Stems == {"m1", "index"}

\* MemoryEntry values: metadata is "plain" (JSON values) or "datetime" (a
\* value json.dump cannot write)
MemoryEntries ==
    [id : Stems, content : {"a", "b"}, access_count : 0..1,
     embedding : {{}, {<<1, 2>>}}, metadata : {"plain", "datetime"}]

AbsentFile == [kind |-> "absent", data |-> {}]
TruncatedFile == [kind |-> "truncated", data |-> {}]
IndexFile == [kind |-> "index", data |-> {}]
EntryFile(d) == [kind |-> "entry", data |-> {d}]

\* __init__: the directory of an earlier process or a new one; _load_index
FsInit ==
    /\ fsDir \in {[s \in Stems |-> AbsentFile],
                  [s \in Stems |-> IF s = "index" THEN IndexFile ELSE AbsentFile]}
    /\ fsLast = [op |-> "none", entry |-> {}, ok |-> FALSE, id |-> "m1", got |-> {}]

FsParked ==
    /\ fsDir = [s \in Stems |-> AbsentFile]
    /\ fsLast = [op |-> "none", entry |-> {}, ok |-> FALSE, id |-> "m1", got |-> {}]

\* MemoryEntry.to_dict: every field but embedding
MemoryEntry_to_dict(e) ==
    [id |-> e.id, content |-> e.content, access_count |-> e.access_count,
     metadata |-> e.metadata]

\* _dict_to_entry: embedding is not passed and takes its default None
_dict_to_entry(d) ==
    [id |-> d.id, content |-> d.content, access_count |-> d.access_count,
     embedding |-> {}, metadata |-> d.metadata]

\* store: open(<id>.json, 'w') empties the file, json.dump writes the dict or
\* raises part-way; then the index entry is set and _save_index rewrites
\* index.json.  Any exception is caught and False returned.
store ==
    \E e \in MemoryEntries :
        IF e.metadata = "datetime"
        THEN /\ fsDir' = [fsDir EXCEPT ![e.id] = TruncatedFile]
             /\ fsLast' = [op |-> "store", entry |-> {e}, ok |-> FALSE,
                           id |-> e.id, got |-> {}]
        ELSE /\ fsDir' = [fsDir EXCEPT ![e.id] = EntryFile(MemoryEntry_to_dict(e)),
                                       !["index"] = IndexFile]
             /\ fsLast' = [op |-> "store", entry |-> {e}, ok |-> TRUE,
                           id |-> e.id, got |-> {}]

\* retrieve: None when the file is missing, or when json.load or
\* _dict_to_entry raises (a truncated file, the index mapping)
retrieve ==
    \E memory_id \in Stems :
        /\ fsLast' = [fsLast EXCEPT
                        !.op = "retrieve",
                        !.id = memory_id,
                        !.got = IF fsDir[memory_id].kind = "entry"
                                THEN {_dict_to_entry(d) : d \in fsDir[memory_id].data}
                                ELSE {}]
        /\ UNCHANGED fsDir

FsNext ==
    \/ store /\ UNCHANGED notFs
    \/ retrieve /\ UNCHANGED notFs

-----------------------------------------------------------------------------
(* Part 17: ToolRegistry.register (src/src/agent/tools/registry.py) and     *)
(* Tool.get_schema (src/src/agent/tools/base.py).  A tool instance is its   *)
(* name and its description; two instances may share a name.                *)

ToolInstances == [name : {"search", "calc"}, description : {"v1", "v2"}]

\* Tool.get_schema
get_schema(tool) ==
    [type |-> "function",
     function |-> [name |-> tool.name, description |-> tool.description]]

\* __init__
RgInit ==
    /\ _tools = <<>>
    /\ _schemas = <<>>
    /\ rgCalls = <<>>

RgParked ==
    /\ _tools = <<>>
    /\ _schemas = <<>>
    /\ rgCalls = <<>>

\* variant: the old schema stays in the list
WithOldSchema(schemas, name) == schemas

\* [s for s in self._schemas if s['function']['name'] != tool.name]
WithoutSchemaOf(schemas, name) ==
    SelectSeq(schemas, LAMBDA s : s.function.name # name)

\* register
register ==
    /\ Len(rgCalls) < MaxRegisters
    /\ \E tool \in ToolInstances :
          /\ _schemas' = Append(IF tool.name \in DOMAIN _tools
                                THEN WithoutSchemaOf(_schemas, tool.name)
                                ELSE _schemas,
                                get_schema(tool))
          /\ _tools' = [n \in DOMAIN _tools \cup {tool.name} |->
                           IF n = tool.name THEN tool ELSE _tools[n]]
          /\ rgCalls' = Append(rgCalls, tool)

RgNext ==
    \/ register /\ UNCHANGED notRg

-----------------------------------------------------------------------------
(* Specifications *)

TaskParked ==
    /\ tasks = <<>>
    /\ file = <<>>
    /\ now = 0

SupParked ==
    /\ fast_path = FALSE
    /\ pending = NoPending
    /\ pendingAge = 0
    /\ pc = "idle"
    /\ user_input = <<>>
    /\ mode = "none"
    /\ planKind = "none"
    /\ attempt = 0
    /\ plan = <<>>
    /\ current_step = 0
    /\ step_count = 0
    /\ streamFrom = "none"
    /\ calls = <<>>
    /\ out = <<>>
    /\ entryPending = NoPending
    /\ reply = NoReply

SaveParked ==
    /\ saving = FALSE
    /\ savePos = 0
    /\ prefixes = {}
    /\ crashed = FALSE

MemParked ==
    /\ using_fallback = FALSE
    /\ fallback_client = FALSE
    /\ primaryDb = {}
    /\ fallbackDir = {}
    /\ memLast = NoOp

\* the components of Parts 1 to 6, none in use
FirstParked ==
    SupParked /\ TaskParked /\ SaveParked /\ MemParked /\ WmInit /\ RegParked

\* the components of the later parts, none in use
LaterParked ==
    RunParked /\ LlmParked /\ EvParked /\ BgParked /\ TnParked /\ CoParked /\ MeParked /\ LpParked /\ PlParked /\ FsParked /\ RgParked

\* a SupervisorAgent in use, no TaskManager
SupervisorInit ==
    SupInit /\ TaskParked /\ SaveParked /\ MemParked /\ WmInit /\ RegParked
    /\ LaterParked

SupervisorSpec == SupervisorInit /\ [][SupNext]_vars

\* a TaskManager in use, no SupervisorAgent
TaskManagerInit ==
    TaskInit /\ SupParked /\ SaveParked /\ MemParked /\ WmInit /\ RegParked
    /\ LaterParked

TaskSpec == TaskManagerInit /\ [][TaskNext]_vars

\* a TaskManager whose file writes are interleaved with crashes
TaskCrashInit ==
    /\ TaskInit /\ SupParked
    /\ saving = FALSE
    /\ savePos = 0
    /\ prefixes = {file}
    /\ crashed = FALSE
    /\ MemParked /\ WmInit /\ RegParked /\ LaterParked

TaskCrashSpec == TaskCrashInit /\ [][SaveNext]_vars

\* a MemorySystem in use
MemoryInit ==
    MemInit /\ SupParked /\ TaskParked /\ SaveParked /\ WmInit /\ RegParked
    /\ LaterParked

MemorySpec == MemoryInit /\ [][MemNext]_vars

\* a WorkingMemory in use
WorkingMemoryInit ==
    WmInit /\ SupParked /\ TaskParked /\ SaveParked /\ MemParked /\ RegParked
    /\ LaterParked

WmMessageSpec == WorkingMemoryInit /\ [][WmMessageNext]_vars

WmSlotSpec == WorkingMemoryInit /\ [][WmSlotNext]_vars

\* a ToolRegistry in use
RegistryInit ==
    RegParked /\ SupParked /\ TaskParked /\ SaveParked /\ MemParked /\ WmInit
    /\ LaterParked

RegistrySpec == RegistryInit /\ [][RegNext]_vars

\* a tool run through execute_safe, over and over
ExecuteSafeInit ==
    RunParked /\ FirstParked /\ LlmParked /\ EvParked /\ BgParked /\ TnParked /\ CoParked /\ MeParked /\ LpParked /\ PlParked /\ FsParked /\ RgParked

ExecuteSafeSpec == ExecuteSafeInit /\ [][RunNext]_vars

\* a FallbackLLMClient in use
FallbackLlmInit ==
    LlmInit /\ FirstParked /\ RunParked /\ EvParked /\ BgParked /\ TnParked /\ CoParked /\ MeParked /\ LpParked /\ PlParked /\ FsParked /\ RgParked

FallbackLlmSpec == FallbackLlmInit /\ [][LlmNext]_vars

\* a HybridScheduler whose events are registered and emitted
EventInit ==
    EvInit /\ FirstParked /\ RunParked /\ LlmParked /\ BgParked /\ TnParked /\ CoParked /\ MeParked /\ LpParked /\ PlParked /\ FsParked /\ RgParked

EventSpec == EventInit /\ [][EvNext]_vars

\* a scheduler and an auto-consolidation started and stopped
BackgroundInit ==
    BgInit /\ FirstParked /\ RunParked /\ LlmParked /\ EvParked /\ TnParked /\ CoParked /\ MeParked /\ LpParked /\ PlParked /\ FsParked /\ RgParked

BackgroundSpec == BackgroundInit /\ [][BgNext]_vars

\* handle() calls on one agent, issued without waiting for each other
TurnsInit ==
    TnInit /\ FirstParked /\ RunParked /\ LlmParked /\ EvParked /\ BgParked /\ CoParked /\ MeParked /\ LpParked /\ PlParked /\ FsParked /\ RgParked

TurnsSpec == TurnsInit /\ [][TnNext]_vars

\* a user turn and a cron job sharing one TaskManager
SharedTasksInit ==
    CoInit /\ FirstParked /\ RunParked /\ LlmParked /\ EvParked /\ BgParked /\ TnParked /\ MeParked /\ LpParked /\ PlParked /\ FsParked /\ RgParked

SharedTasksSpec == SharedTasksInit /\ [][CoNext]_vars

\* one MemoryEntry over some days of accesses and confidence computations
EntryInit ==
    MeInit /\ FirstParked /\ RunParked /\ LlmParked /\ EvParked /\ BgParked /\ TnParked /\ CoParked /\ LpParked /\ PlParked /\ FsParked /\ RgParked

EntrySpec == EntryInit /\ [][MeNext]_vars

\* the multi-step loop of one turn with its pauses and resumes
LoopInit ==
    LpInit /\ FirstParked /\ RunParked /\ LlmParked /\ EvParked /\ BgParked /\ TnParked /\ CoParked /\ MeParked /\ PlParked /\ FsParked /\ RgParked

LoopSpec == LoopInit /\ [][LpNext]_vars

\* planning of one multi-step turn
PlanningInit ==
    PlInit /\ FirstParked /\ RunParked /\ LlmParked /\ EvParked /\ BgParked /\ TnParked /\ CoParked /\ MeParked /\ LpParked /\ FsParked /\ RgParked

PlanningSpec == PlanningInit /\ [][PlNext]_vars

\* the fallback store of long-term memory
FallbackStoreInit ==
    FsInit /\ FirstParked /\ RunParked /\ LlmParked /\ EvParked /\ BgParked /\ TnParked /\ CoParked /\ MeParked /\ LpParked /\ PlParked /\ RgParked

FallbackStoreSpec == FallbackStoreInit /\ [][FsNext]_vars

\* registrations on one registry
RegisterInit ==
    RgInit /\ FirstParked /\ RunParked /\ LlmParked /\ EvParked /\ BgParked /\ TnParked /\ CoParked /\ MeParked /\ LpParked /\ PlParked /\ FsParked

RegisterSpec == RegisterInit /\ [][RgNext]_vars

-----------------------------------------------------------------------------
(* Properties of SupervisorAgent, checked under SupervisorSpec *)

\* the turn is over: handle() or continue_with_input returned, paused or raised
TurnOver == pc \in {"done", "raised", "paused"}

\* handle() was entered with a latched slot and an affirmative input
AffirmativeTurn == entryPending # NoPending /\ _is_confirmation(user_input)

\* the call carries the latched parameters and confirmed=true
KeepsLatched(call, slot) ==
    /\ call.tool_name = slot.tool_name
    /\ \A kv \in slot.params :
          kv[1] \notin {"confirmed", "delete_all"} => kv \in call.params
    /\ Keys(call.params) \subseteq Keys(slot.params) \cup {"confirmed", "delete_all"}
    /\ Get(call.params, "confirmed") = "true"

\* C1 as stated: after an affirmative reply to a latched confirmation the
\* latched tool has been called exactly once with the latched parameters plus
\* confirmed=true, with delete_all=true added when the latched delete call
\* specified neither task_ids nor delete_all, and the slot is empty.
C1_ConfirmAsStated ==
    (TurnOver /\ AffirmativeTurn) =>
        /\ Len(calls) = 1
        /\ KeepsLatched(calls[1], entryPending)
        /\ Get(calls[1].params, "delete_all") =
              (IF entryPending.tool_name = "delete_tasks"
                  /\ "task_ids" \notin Keys(entryPending.params)
                  /\ "delete_all" \notin Keys(entryPending.params)
               THEN "true"
               ELSE Get(entryPending.params, "delete_all"))
        /\ pending = NoPending

\* C1 amended: as C1, but delete_all=true is set whenever the latched delete
\* call has neither a non-empty task_ids nor a true delete_all (absent, empty
\* or false), so a latched delete_all=false is overridden.
C1_ConfirmReinvokesOnce ==
    (TurnOver /\ AffirmativeTurn) =>
        /\ Len(calls) = 1
        /\ KeepsLatched(calls[1], entryPending)
        /\ Get(calls[1].params, "delete_all") =
              (IF entryPending.tool_name = "delete_tasks"
                  /\ ~Truthy(Get(entryPending.params, "task_ids"))
                  /\ ~Truthy(Get(entryPending.params, "delete_all"))
               THEN "true"
               ELSE Get(entryPending.params, "delete_all"))
        /\ pending = NoPending

\* an affirmative turn whose re-invocation failed, the slot being empty
C1_Witness ==
    /\ pc = "done"
    /\ AffirmativeTurn
    /\ Len(calls) = 1
    /\ ~calls[1].result.success
    /\ Get(calls[1].params, "confirmed") = "true"
    /\ pending = NoPending

\* C2: after a negative reply to a latched confirmation the slot is empty, a
\* cancellation message was yielded and no tool was called.
C2_NegativeCancels ==
    (TurnOver /\ entryPending # NoPending /\ _is_cancel(user_input)) =>
        /\ pending = NoPending
        /\ Contains(out, "cancelled")
        /\ calls = <<>>

\* C3: after a reply that is neither affirmative nor negative the old slot is
\* gone (a slot present at the end was latched by this very turn), so a
\* confirmation only ever executes a slot latched by the turn just before it.
C3_OtherInputClearsSlot ==
    /\ (TurnOver /\ entryPending # NoPending
          /\ ~_is_confirmation(user_input) /\ ~_is_cancel(user_input))
       => (pending = NoPending \/ pendingAge = 0)
    /\ (pc = "confirming" => pendingAge <= 1)

\* C4: a slot latched in this turn was latched by a single-step turn and holds
\* the name and the parameters of a call of this turn whose result signalled
\* needs_confirmation.
C4_SlotHoldsTheCall ==
    (pending # NoPending /\ pendingAge = 0) =>
        /\ mode = "single_step"
        /\ \E i \in DOMAIN calls :
              /\ calls[i].result.needs_confirmation
              /\ calls[i].tool_name = pending.tool_name
              /\ calls[i].params = pending.params

\* C5: handle() never raises.
C5_HandleNeverRaises == pc # "raised"

\* continue_with_input is being called with an affirmative reply
ContinueYes == pc = "paused" /\ reply' # NoReply /\ IsContinueYes(reply')

\* C6 as stated: after an affirmative reply to a need_input pause the
\* remaining steps are resumed, so that the turn ends with the plan complete.
C6_YesAlwaysResumes ==
    (pc = "done" /\ reply # NoReply /\ IsContinueYes(reply)) => is_complete

\* C6 amended: a step whose result signals needs_confirmation is marked
\* needs_clarification, a need_input item is yielded and no later step has
\* run; only continue_with_input goes on with the plan; an affirmative reply
\* (yes, y, queren, shi) re-executes the paused step with confirmed=true and,
\* if that call succeeds, the loop is re-entered at the next step, steps
\* always running in plan order; if it fails, no further step runs and the
\* plan stays at the paused step.
C6_PauseAndResume ==
    /\ [](pc = "paused" =>
            /\ current_step < Len(plan)
            /\ plan[current_step + 1].status = "needs_clarification"
            /\ out # <<>> /\ out[Len(out)] = "need_input"
            /\ calls # <<>>
            /\ calls[Len(calls)].result.needs_confirmation
            /\ calls[Len(calls)].tool_name = plan[current_step + 1].tool_name
            /\ \A j \in (current_step + 2)..Len(plan) : plan[j].status = "pending")
    /\ [][(pc = "paused" /\ calls' # calls /\ calls' # <<>>) => reply' # NoReply]_vars
    /\ [][ContinueYes =>
            LET i == current_step + 1
                c == calls'[Len(calls')]
            IN  /\ Len(calls') = Len(calls) + 1
                /\ c.tool_name = plan[i].tool_name
                /\ c.params = Put(plan[i].parameters, "confirmed", "true")
                /\ \A j \in (i + 1)..Len(plan) : plan'[j] = plan[j]
                /\ IF c.result.success
                   THEN /\ current_step' = i
                        /\ pc' = IF i < Len(plan) THEN "exec_multi" ELSE "done"
                   ELSE /\ current_step' = current_step
                        /\ pc' = "done"]_vars
    /\ [][(pc = "exec_multi" /\ Len(calls') = Len(calls) + 1) =>
            /\ calls'[Len(calls')].tool_name = plan[current_step + 1].tool_name
            /\ calls'[Len(calls')].params = plan[current_step + 1].parameters
            /\ current_step' \in {current_step, current_step + 1}]_vars

\* a plan of two steps: the first was paused and confirmed, the second ran
C6_Witness ==
    /\ pc = "done"
    /\ reply # NoReply /\ IsContinueYes(reply)
    /\ Len(plan) = 2
    /\ is_complete
    /\ Get(plan[1].parameters, "confirmed") = "true"
    /\ plan[2].status = "completed"
    /\ Len(calls) = 3

\* C7: after a negative reply to a need_input pause the paused step is
\* cancelled and the remaining steps of the plan have been executed.
C7_NoContinuesWithRest ==
    (pc = "done" /\ reply # NoReply /\ IsContinueNo(reply)) =>
        /\ current_step >= 1
        /\ plan[current_step].status = "cancelled"
        /\ is_complete

-----------------------------------------------------------------------------
(* Properties of TaskManager, checked under TaskSpec *)

Terminal == {"completed", "cancelled", "archived"}

StatusGraph ==
    { <<"pending", "in_progress">>, <<"in_progress", "completed">>,
      <<"in_progress", "blocked">>, <<"in_progress", "waiting">>,
      <<"waiting", "pending">>, <<"blocked", "pending">> }

\* a step of start, block, unblock, wait_for or complete
TransitionCall == start \/ block \/ unblock \/ wait_for \/ complete

\* C8: no start, block, unblock, wait_for or complete call changes the status
\* of a task that is completed, cancelled or archived.
C8_TerminalIsFinal ==
    [][TransitionCall =>
          \A id \in TaskIds :
              StatusOf(tasks, id) \in Terminal =>
                  StatusOf(tasks', id) = StatusOf(tasks, id)]_vars

\* C9: every status change made by start, block, unblock, wait_for or
\* complete is an edge of the status graph.
C9_FollowsStatusGraph ==
    [][TransitionCall =>
          \A id \in TaskIds :
              StatusOf(tasks', id) # StatusOf(tasks, id) =>
                  <<StatusOf(tasks, id), StatusOf(tasks', id)>> \in StatusGraph]_vars

StatusMap(ts) == {<<ts[i].id, ts[i].status>> : i \in DOMAIN ts}

\* the file holds one well-formed line per task of the dict, in its order
FileMatchesMemory ==
    /\ Len(file) = Len(tasks)
    /\ \A i \in DOMAIN tasks :
          /\ file[i].wf
          /\ file[i].id = tasks[i].id
          /\ file[i].status = tasks[i].status

-----------------------------------------------------------------------------
(* Properties of _save_tasks under crashes, checked under TaskCrashSpec *)

\* C11: when the process has crashed, the task file equals the file as it
\* was after some prefix of the completed mutations (the initial file
\* included), or as the mutation under way leaves it; a partly written
\* file is never seen.
C11_CrashLeavesPrefix ==
    crashed => (file \in prefixes \/ file = _save_tasks(tasks))

-----------------------------------------------------------------------------
(* Properties of MemorySystem, checked under MemorySpec *)

C13_RecallDegradesToFallback ==
    (memLast.op = "recall" /\ memLast.primaryFailed) =>
        /\ memLast.found = Found("fallback", {memLast.arg} \cap fallbackDir)
        /\ using_fallback = memLast.latchedBefore

\* C14: after any add_message or slot write the estimated tokens of the
\* slots plus those of the messages are at most max_tokens; from exactly
\* max_tokens the next add_message compresses and ends within the limit.
C14_StaysWithinLimit == is_within_limit

\* C15: every system message added to the buffer is still in it, in the order
\* added, after any compression or truncation by count.
C15_SystemMessagesKept == SelectSeq(messages, IsSystem) = sysAdded

\* a compression has dropped messages and the system messages are there
C15_Witness ==
    /\ summary # 0
    /\ Len(sysAdded) >= 2
    /\ \E i \in DOMAIN messages : NotSystem(messages[i])

InjectedAt == {p \in DOMAIN get_messages(TRUE) : get_messages(TRUE)[p].injected}

C16_DefaultSlotsPresent == {"identity", "context", "facts"} \subseteq SlotNames(slots)

\* C17: after any write_slot, compact, clear_context and add_message the
\* identity slot exists and holds exactly the content last set for it.
C17_IdentityKept ==
    \E i \in DOMAIN slots :
        slots[i].name = "identity" /\ slots[i].content = identitySet

\* an over-budget identity after a compaction that cut the context slot and
\* an eviction that took a default slot
C17_Witness ==
    /\ identitySet = "long"
    /\ \E i \in DOMAIN slots : slots[i].content = "...tail"
    /\ "facts" \notin SlotNames(slots)
    /\ Len(slots) = max_slots

NonIdentity(sl) == {i \in DOMAIN sl : sl[i].name # "identity"}

C21_TimeoutIsEnforced ==
    (esPc = "returned" /\ esTool # "not_started"
        /\ esCall.duration > esCall.timeout)
    => /\ ~esResult.success
       /\ esResult.error = "Timeout after" /\ esResult.n = esCall.timeout
       /\ esClock <= esCall.timeout
       /\ esTool = "cancelled"

\* C22: every ToolResult execute_safe returns, on every return path, carries
\* metadata.duration and metadata.timestamp.
C22_MetadataOnEveryPath ==
    esPc = "returned" => {"duration", "timestamp"} \subseteq esResult.metadata

\* C23: a call through execute_safe with arguments the tool does not
\* declare is validated on the declared parameters only, and the undeclared
\* arguments are not passed to the tool's execute.
C23_UndeclaredArgsStopHere ==
    /\ \A params \in RunParams :
          ParamsValid(params) = ParamsValid(params \cap DeclaredNames)
    /\ esTool # "not_started" => esReceived \subseteq DeclaredNames

\* C24: the backup client is invoked exactly when the primary call failed, a
\* backup is configured and the policy is fallback_once or always_fallback;
\* under fail_fast the primary's error propagates and the backup is not
\* called; for generate and for stream_generate.
C24_BackupExactlyWhenAllowed ==
    llmLast.op # "none" =>
        /\ llmLast.backup_called <=>
              ( /\ PrimaryFailed(llmLast.primary)
                /\ llmConfig.fallback_enabled
                /\ llmConfig.strategy \in {"fallback_once", "always_fallback"} )
        /\ (llmConfig.strategy = "fail_fast" /\ PrimaryFailed(llmLast.primary))
              => llmLast.outcome = "raised_primary"

\* the positions 1..n, in order
Positions(n) == [i \in 1..n |-> i]

\* C25: emit_event(type, data) evaluates the condition of every pair
\* registered for the type exactly once, in registration order, and runs the
\* action of every pair whose condition held, whatever an earlier pair's
\* condition or action raised.
C25_EveryPairInOrder ==
    evLast.type # "" =>
        LET OfType(i) == event_handlers[i].type = evLast.type
            Holds(i) == OfType(i) /\ event_handlers[i].condition = "true"
        IN  /\ evLast.evaluated = SelectSeq(Positions(evLast.n), OfType)
            /\ evLast.ran = SelectSeq(Positions(evLast.n), Holds)

\* a pair ran after an earlier pair of the same emit had raised
C25_Witness ==
    \E i, j \in DOMAIN event_handlers :
        /\ i < j /\ j <= evLast.n
        /\ event_handlers[i].type = evLast.type
        /\ ( \/ event_handlers[i].condition = "raises"
             \/ (event_handlers[i].condition = "true"
                    /\ event_handlers[i].action = "raises") )
        /\ \E k \in DOMAIN evLast.ran : evLast.ran[k] = j

C27_NoPipelining ==
    ~tnOverlap

C29_NeverAboveInitial ==
    meCurrent <= meInitial

\* C29 (amended): current_confidence never exceeds initial_confidence by
\* more than the access boost of 0.1, and never exceeds 1.0.
C29_AtMostInitialPlusBoost ==
    /\ meCurrent <= meInitial + 100
    /\ meCurrent <= 1000

\* an entry accessed more than ten times, recomputed on the day it was
\* created: it stands 0.1 above its initial confidence
C29_Witness ==
    /\ meAccess > 10
    /\ meDays = 0
    /\ meInitial < 1000
    /\ meCurrent = meInitial + 100

\* C30: over one turn, with any pauses and resumes, the multi-step loop
\* performs at most max_steps iterations.
C30_AtMostMaxSteps ==
    lpIterations <= lpMax

\* the sleeps of one retry loop, in order
SleepsOf(loop) == SelectSeq(plSleeps, LAMBDA s : s.loop = loop)

\* C31: the multi-step planner calls the LLM at most retry_attempts times,
\* the k-th wait of a retry loop lasts k * retry_delay, the single-step
\* planner takes over only after retry_attempts failed attempts, and
\* planning ends with a plan: when every attempt failed, the chat step
\* carrying the raw input.
C31_BoundedRetriesThenDemotion ==
    /\ plCalls.multi <= plConfig.retry_attempts
    /\ plCalls.single <= plConfig.retry_attempts
    /\ \A loop \in {"multi", "single"} :
          \A k \in 1..Len(SleepsOf(loop)) :
              SleepsOf(loop)[k].seconds = k * plConfig.retry_delay
    /\ plLoop = "single" => plCalls.multi = plConfig.retry_attempts
    /\ plLoop = "returned" =>
          /\ plPlan # "none"
          /\ plCalls.single = plConfig.retry_attempts /\ plAttempt = plConfig.retry_attempts
                => plPlan = "chat_raw"

\* every attempt of both planners failed, with waits in between
C31_Witness ==
    /\ plLoop = "returned"
    /\ plConfig.retry_attempts = 3
    /\ plCalls = [multi |-> 3, single |-> 3]
    /\ Len(plSleeps) = 4
    /\ plPlan = "chat_raw"

\* C32: every well-formed line of the task file is a task of the manager
\* that loaded it, whether the line comes before or after a malformed one.
C32_EveryWellFormedLineLoaded ==
    \A i \in DOMAIN file : file[i].wf => file[i].id \in Ids(tasks)

\* C33: writing a task as a line and loading the line back gives the task,
\* equal on every field.
C33_LineRoundTrip ==
    \A i \in DOMAIN tasks : from_dict(to_dict(tasks[i])) = tasks[i]

\* C34: when retrieve(e.id) follows a store(e) that returned True, it
\* returns an entry equal to e.
C34_RetrieveReturnsStored ==
    fsLast.op = "retrieve" =>
        \A e \in fsLast.entry :
            fsLast.ok /\ fsLast.id = e.id => fsLast.got = {e}

\* the positions of rgCalls that registered the name
RegistrationsOf(name) == {i \in DOMAIN rgCalls : rgCalls[i].name = name}

\* the most recently registered tool of a registered name
LatestRegistered(name) ==
    rgCalls[CHOOSE i \in RegistrationsOf(name) :
                \A j \in RegistrationsOf(name) : j <= i]

\* C35: the registered names are those passed to register, each maps to
\* the tool registered last under it, and the schema list holds one schema
\* per registered name, that of this tool, and nothing else.
C35_LatestRegistrationWins ==
    /\ DOMAIN _tools = {rgCalls[i].name : i \in DOMAIN rgCalls}
    /\ \A name \in DOMAIN _tools :
          /\ _tools[name] = LatestRegistered(name)
          /\ Cardinality({i \in DOMAIN _schemas :
                              _schemas[i].function.name = name}) = 1
          /\ \E i \in DOMAIN _schemas :
                _schemas[i] = get_schema(LatestRegistered(name))
    /\ Len(_schemas) = Cardinality(DOMAIN _tools)

\* a name registered with one tool and later with another, between
\* registrations of the other name
C35_Witness ==
    /\ Len(rgCalls) = 4
    /\ rgCalls[1].name = "search" /\ rgCalls[2].name = "calc"
    /\ rgCalls[3].name = "search" /\ rgCalls[3] # rgCalls[1]
    /\ rgCalls[4].name = "calc" /\ rgCalls[4] # rgCalls[2]

\* C36: a cron task of the scheduler leaves its loop only once stop() has
\* cleared the running flag, and after the sleep that follows an exception
\* of its handler it goes back to waiting for the next run.
C36_HandlerErrorKeepsCronRunning ==
    [][ \A t \in {u \in BgTasks : Trigger(u) = "cron"} :
          /\ bgPc[t] \in Live /\ bgPc'[t] = "exited"
                => ~bgRunning["scheduler"]
          /\ bgPc[t] = "error_sleep" /\ bgPc'[t] # "error_sleep"
                => bgPc'[t] = "sleep" \/ ~bgRunning["scheduler"] ]_vars

\* the handler of the cron job has raised while the scheduler runs: the
\* task is in the sleep of its except branch
C36_Witness ==
    /\ bgPc["cron"] = "error_sleep"
    /\ bgRunning["scheduler"]
    /\ bgStop["scheduler"] = "no"

\* C37: every delete_tasks call carrying a true confirmed was issued in a
\* turn entered with a latched delete_tasks confirmation and an affirmative
\* input, or by continue_with_input with an affirmative reply.
C37_ConfirmedDeleteOnlyAfterYes ==
    \A i \in DOMAIN calls :
        (calls[i].tool_name = "delete_tasks"
            /\ Truthy(Get(calls[i].params, "confirmed"))) =>
            \/ entryPending.tool_name = "delete_tasks" /\ _is_confirmation(user_input)
            \/ reply # NoReply /\ IsContinueYes(reply)

\* C38: for every registered cron job or heartbeat trigger, and for the
\* consolidation loop, at most one background task is alive.
C38_OneTaskPerTrigger ==
    \A t, u \in BgTasks :
        (Trigger(t) = Trigger(u) /\ bgPc[t] \in Live /\ bgPc[u] \in Live) => t = u

\* recall would look in the store that holds the entry
RecallReaches(e) ==
    IF using_fallback /\ fallback_client THEN e \in fallbackDir ELSE e \in primaryDb

\* C39: the entry of a capture that returned an id is reachable by recall
\* when capture returns, and is still reachable after the operation that
\* follows, a latch onto the fallback included.
C39_CapturedStaysRecallable ==
    /\ [](memLast.op = "store" /\ memLast.ok => RecallReaches(memLast.arg))
    /\ [][\A e \in Entries :
              memLast.op = "store" /\ memLast.ok /\ memLast.arg = e
                  => RecallReaches(e)']_vars

\* C40: total_requests = primary_success + primary_failures,
\* fallback_requests = fallback_success + fallback_failures,
\* fallback_requests <= primary_failures, and using_fallback tells whether
\* the call that succeeded last was served by the backup.
C40_StatsAddUp ==
    /\ llmStats.total_requests = llmStats.primary_success + llmStats.primary_failures
    /\ llmStats.fallback_requests = llmStats.fallback_success + llmStats.fallback_failures
    /\ llmStats.fallback_requests <= llmStats.primary_failures
    /\ llmLast.outcome = "backup" => llmStats.using_fallback
    /\ llmLast.outcome = "primary" => ~llmStats.using_fallback

=============================================================================
